---- MODULE Spec2Model ----
(***************************************************************************)
(* HANK + SAM fiscal-multiplier pipeline (dashboard/hank_sam.py and the    *)
(* script dashboard/hafiscal.py it refactors).                             *)
(*                                                                         *)
(* Numbers are exact rationals <<n, d>> in lowest terms with d > 0, so     *)
(* that equality of two computed values is equality of the tuples.         *)
(***************************************************************************)
EXTENDS Integers, Sequences, FiniteSets, TLC

\* ------------------------------------------------------------------------
\* Exact rational arithmetic
\* ------------------------------------------------------------------------
Abs(x) == IF x < 0 THEN -x ELSE x

RECURSIVE GCD(_, _)
GCD(a, b) == IF b = 0 THEN a ELSE GCD(b, a % b)

Rat(n, d) ==
    LET g == GCD(Abs(n), Abs(d))
        sg == IF d < 0 THEN -1 ELSE 1
    IN  <<sg * (n \div g), sg * (d \div g)>>

Zero == <<0, 1>>
One == <<1, 1>>

RAdd(a, b) ==
    LET g == GCD(a[2], b[2])
        l == (a[2] \div g) * b[2]
    IN  Rat(a[1] * (l \div a[2]) + b[1] * (l \div b[2]), l)

RNeg(a) == <<-a[1], a[2]>>

RSub(a, b) == RAdd(a, RNeg(b))

RMul(a, b) ==
    LET g1 == GCD(Abs(a[1]), b[2])
        g2 == GCD(Abs(b[1]), a[2])
    IN  Rat((a[1] \div g1) * (b[1] \div g2), (a[2] \div g2) * (b[2] \div g1))

\* a / b, b # 0
RDiv(a, b) == RMul(a, Rat(b[2], b[1]))

RECURSIVE RPow(_, _)
RPow(a, k) == IF k = 0 THEN One ELSE RMul(a, RPow(a, k - 1))

\* sum of f[k] for k = lo .. hi
RECURSIVE RSum(_, _, _)
RSum(f, lo, hi) == IF lo > hi THEN Zero ELSE RAdd(f[lo], RSum(f, lo + 1, hi))

\* ------------------------------------------------------------------------
\* Bounds
\* ------------------------------------------------------------------------
\* time horizon of the Jacobians (bigT = 300 in the source)
bigT == 3

Times == 0 .. (bigT - 1)

\* ------------------------------------------------------------------------
\* SECTION 2: labor market calibration and the unemployment Jacobian
\* ------------------------------------------------------------------------
num_mrkv == 6

States == 0 .. (num_mrkv - 1)

\* job_sep = EU_prob / (1 - job_find)
job_sep(p) == RDiv(p.EU_prob, RSub(One, p.job_find))

\* the 6x6 transition matrix of calibrate_labor_market, M[row][column]
markov_array_ss(p) ==
    LET jf == p.job_find
        nf == RSub(One, jf)
        eu == RMul(job_sep(p), nf)
    IN  [r \in States |-> [c \in States |->
            CASE r = 0 /\ c = 0 -> RSub(One, eu)
              [] r = 0 /\ c > 0 -> jf
              [] r = 1 /\ c = 0 -> eu
              [] r \in 2 .. 4 /\ c = r - 1 -> nf
              [] r = 5 /\ c \in {4, 5} -> nf
              [] OTHER -> Zero]]

\* variant of create_matrix_U: the separation entry leaves out the factor
\* 1 - job_find
create_matrix_U_sep(p, dx) ==
    LET job_find_dx == RAdd(p.job_find, dx)
        nf == RSub(One, job_find_dx)
        eu == job_sep(p)
    IN  [r \in States |-> [c \in States |->
            CASE r = 0 /\ c = 0 -> RSub(One, eu)
              [] r = 0 /\ c > 0 -> job_find_dx
              [] r = 1 /\ c = 0 -> eu
              [] r \in 2 .. 4 /\ c = r - 1 -> nf
              [] r = 5 /\ c \in {4, 5} -> nf
              [] OTHER -> Zero]]

\* variant of create_matrix_U: the long-term unemployed who find no job are
\* dropped
create_matrix_U_leak(p, dx) ==
    LET job_find_dx == RAdd(p.job_find, dx)
        nf == RSub(One, job_find_dx)
        eu == RMul(job_sep(p), nf)
    IN  [r \in States |-> [c \in States |->
            CASE r = 0 /\ c = 0 -> RSub(One, eu)
              [] r = 0 /\ c > 0 -> job_find_dx
              [] r = 1 /\ c = 0 -> eu
              [] r \in 2 .. 4 /\ c = r - 1 -> nf
              [] r = 5 /\ c = 4 -> nf
              [] OTHER -> Zero]]

\* the same matrix with job_find + dx
create_matrix_U(p, dx) ==
    LET job_find_dx == RAdd(p.job_find, dx)
        nf == RSub(One, job_find_dx)
        eu == RMul(job_sep(p), nf)
    IN  [r \in States |-> [c \in States |->
            CASE r = 0 /\ c = 0 -> RSub(One, eu)
              [] r = 0 /\ c > 0 -> job_find_dx
              [] r = 1 /\ c = 0 -> eu
              [] r \in 2 .. 4 /\ c = r - 1 -> nf
              [] r = 5 /\ c \in {4, 5} -> nf
              [] OTHER -> Zero]]

\* np.dot(M, v)
Dot(M, v) ==
    [r \in States |-> RSum([c \in States |-> RMul(M[r][c], v[c])], 0, num_mrkv - 1)]

\* variant of ss_dstn: the eigenvector is not divided by its sum
ss_dstn_raw(p) ==
    LET jf == p.job_find
        nf == RSub(One, jf)
        eu == RMul(job_sep(p), nf)
        u1 == eu
        u2 == RMul(nf, u1)
        u3 == RMul(nf, u2)
        u4 == RMul(nf, u3)
        u5 == RDiv(RMul(nf, u4), jf)
    IN  [k \in States |->
            CASE k = 0 -> One [] k = 1 -> u1 [] k = 2 -> u2
              [] k = 3 -> u3 [] k = 4 -> u4 [] OTHER -> u5]

\* the eigenvector of eigenvalue 1 of markov_array_ss, divided by its sum:
\* from the chain structure, with n the employed mass,
\*   U1 = eu*n, U2 = nf*U1, U3 = nf*U2, U4 = nf*U3, U5 = nf*U4/jf
ss_dstn(p) ==
    LET jf == p.job_find
        nf == RSub(One, jf)
        eu == RMul(job_sep(p), nf)
        u1 == eu
        u2 == RMul(nf, u1)
        u3 == RMul(nf, u2)
        u4 == RMul(nf, u3)
        u5 == RDiv(RMul(nf, u4), jf)
        raw == [k \in States |->
                  CASE k = 0 -> One [] k = 1 -> u1 [] k = 2 -> u2
                    [] k = 3 -> u3 [] k = 4 -> u4 [] OTHER -> u5]
        tot == RSum(raw, 0, num_mrkv - 1)
    IN  [k \in States |-> RDiv(raw[k], tot)]

\* the tuple calibrate_labor_market returns, and the steady-state entries
\* U, U1 .. U5 and N made of it
calibrate_labor_market(p) ==
    LET dstn_ss == ss_dstn(p)
    IN  [markov_array_ss |-> markov_array_ss(p),
         ss_dstn |-> dstn_ss,
         U_ss |-> RSub(One, dstn_ss[0]),
         N_ss |-> dstn_ss[0],
         num_mrkv |-> num_mrkv]

\* U = U1 + U2 + U3 + U4 + U5 of the block unemployment1
unemployment1(U1, U2, U3, U4, U5) ==
    RAdd(RAdd(RAdd(RAdd(U1, U2), U3), U4), U5)

\* job finding and separation probabilities the calibration is run on
\* (2/3 and 0.0306834 in the source)
LaborMarkets ==
    { [job_find |-> jf, EU_prob |-> eu] :
        jf \in {<<1, 3>>, <<1, 2>>, <<2, 3>>},
        eu \in {<<1, 10>>, <<1, 4>>, <<1, 3>>} }

\* numpy's division of floats: x / 0 is inf, -inf or nan, written <<1, 0>>,
\* <<-1, 0>> and <<0, 0>>
FDiv(a, b) ==
    IF b[1] = 0
      THEN <<IF a[1] > 0 THEN 1 ELSE IF a[1] < 0 THEN -1 ELSE 0, 0>>
      ELSE RDiv(a, b)

\* (dstn - ss_dstn) / dx
JacEntry(p, d) == [k \in States |-> FDiv(RSub(d[k], ss_dstn(p)[k]), p.dx)]

\* variant of StepDstn: the perturbed matrix stays in force from the shock on
StepDstn_persist(p, d, i, s) ==
    IF i >= s THEN Dot(create_matrix_U(p, p.dx), d)
              ELSE Dot(markov_array_ss(p), d)

\* one pass of the inner loop body at (response time i, shock time s)
StepDstn(p, d, i, s) ==
    IF i = s THEN Dot(create_matrix_U(p, p.dx), d)
             ELSE Dot(markov_array_ss(p), d)

ZeroVec == [k \in States |-> Zero]

\* ------------------------------------------------------------------------
\* SECTION 4: household Jacobians and the splurge transform
\* ------------------------------------------------------------------------
\* gross real interest rate R = 1.01
R == <<101, 100>>

\* splurge = 0.3
splurge == <<3, 10>>

\* the inputs apply_splurge_behavior loops over
PolicyInputs == {"transfers", "tau", "UI_extend", "UI_rr", "eta", "w"}

\* the inputs of the household Jacobians: the policy inputs and the real rate
JacInputs == PolicyInputs \cup {"r"}

\* a matrix is J[t][s]: response time t (row), shock time s (column)
RScale(a, J) == [t \in Times |-> [sh \in Times |-> RMul(a, J[t][sh])]]

\* variant of present_value: entry [t, s] is divided by R^t
present_value_rows(J) ==
    [sh \in Times |->
        RSum([t \in Times |-> RDiv(J[t][sh], RPow(R, t))], 0, bigT - 1)]

\* np.sum(J / R ** np.arange(periods), axis=0): the vector R ** arange is
\* broadcast along the last axis, so entry [t, s] is divided by R^s, and the
\* sum runs over the rows t
present_value(J) ==
    [sh \in Times |->
        RSum([t \in Times |-> RDiv(J[t][sh], RPow(R, sh))], 0, bigT - 1)]

\* np.diag(present_value * R ** np.arange(periods))
splurge_jacobian_component(J) ==
    LET pv == present_value(J)
    IN  [t \in Times |-> [sh \in Times |->
            IF t = sh THEN RMul(pv[sh], RPow(R, sh)) ELSE Zero]]

\* share * component + (1 - share) * J
splurge_jacobian(J, share) ==
    LET comp == splurge_jacobian_component(J)
    IN  [t \in Times |-> [sh \in Times |->
            RAdd(RMul(share, comp[t][sh]), RMul(RSub(One, share), J[t][sh]))]]

\* variant of apply_splurge_behavior: the loop runs over every input
apply_splurge_behavior_all(JD) ==
    [C |-> [inp \in JacInputs |-> splurge_jacobian(JD.C[inp], splurge)],
     A |-> [inp \in JacInputs |-> RScale(RSub(One, splurge), JD.A[inp])]]

\* apply_splurge_behavior(Jacobian_Dict): the dictionary after the loop
apply_splurge_behavior(JD) ==
    [C |-> [inp \in JacInputs |->
              IF inp \in PolicyInputs THEN splurge_jacobian(JD.C[inp], splurge)
                                      ELSE JD.C[inp]],
     A |-> [inp \in JacInputs |->
              IF inp \in PolicyInputs THEN RScale(RSub(One, splurge), JD.A[inp])
                                      ELSE JD.A[inp]]]

\* Jacobians the pickle files may hold: response a on arrival, b after it,
\* c in anticipation of it
Profile(a, b, c) ==
    [t \in Times |-> [sh \in Times |->
        IF t = sh THEN <<a, 1>> ELSE IF t > sh THEN <<b, 1>> ELSE <<c, 1>>]]

Profiles == {Profile(a, b, c) : a \in {1, 2}, b \in {0, 1}, c \in {0, 1}}

\* each input has its own Jacobian: the profile scaled by a weight
Weight(inp) ==
    CASE inp = "transfers" -> <<1, 1>>
      [] inp = "tau" -> <<-1, 1>>
      [] inp = "UI_extend" -> <<2, 1>>
      [] inp = "UI_rr" -> <<3, 1>>
      [] inp = "eta" -> <<1, 2>>
      [] inp = "w" -> <<3, 2>>
      [] OTHER -> <<-2, 1>>

\* the content of HA_Fiscal_Jacs.obj
Pickle(pc, pa) ==
    [C |-> [inp \in JacInputs |-> RScale(Weight(inp), pc)],
     A |-> [inp \in JacInputs |-> RScale(Weight(inp), pa)]]

\* load_jacobians: Jacobian_Dict is the pickle's "C" and "A"
LoadMain(jac) == [C |-> jac.C, A |-> jac.A]

\* load_jacobians: the copy whose UI_extend entries are the realized ones
LoadUIReal(jac, real) ==
    [C |-> [jac.C EXCEPT !["UI_extend"] = real.C],
     A |-> [jac.A EXCEPT !["UI_extend"] = real.A]]

\* calibrations the loop is run on: job_find, EU_prob and the step dx
Calibrations ==
    { [job_find |-> <<1, 2>>, EU_prob |-> eu, dx |-> dx] :
        eu \in {<<1, 2>>, <<1, 1>>}, dx \in {<<1, 2>>, <<1, 4>>}}
    \cup
    { [job_find |-> <<1, 2>>, EU_prob |-> <<1, 2>>, dx |-> dx] :
        dx \in {<<-1, 2>>, <<-1, 4>>}}
    \cup
    { [job_find |-> <<1, 2>>, EU_prob |-> eu, dx |-> Zero] :
        eu \in {<<1, 2>>, <<1, 4>>}}

\* ------------------------------------------------------------------------
\* SECTION 6: policy experiments and multipliers
\* ------------------------------------------------------------------------
\* module-level defaults (SECTION 1); kappa_p_ss and C_ss to three digits
phi_pi == <<3, 2>>
phi_y == <<0, 1>>
rho_r == <<0, 1>>
kappa_p_ss == <<62, 1000>>
phi_b == <<3, 200>>
real_wage_rigidity == <<837, 1000>>
phi_w == <<1, 1>>
C_ss == <<691, 1000>>
tau_ss == <<3, 10>>
UI_extension_length == 4
stimulus_check_length == 1
tax_cut_length == 8

\* further module-level constants of SECTION 1
phi_ss == <<71, 100>>
A_ss == <<179, 125>>
wage_ss == <<1, 1>>
UI == RMul(RMul(<<1, 2>>, RSub(One, tau_ss)), wage_ss)
MC_ss == <<5, 6>>
r_ss == RSub(R, One)

\* delta = ((R ** 4) * (1 - (1 / 5))) ** (1 / 4), the float 0.9552...,
\* kept to three digits
delta == <<191, 200>>

\* calibrate_general_equilibrium(N_ss, ss_dstn) for the labor market p; the
\* entries found by fractional powers (chi_ss, eta_ss) are left out, no
\* residual below reads them
calibrate_general_equilibrium(p, N_ss, dstn_ss) ==
    LET v_ss == RDiv(RMul(N_ss, job_sep(p)), phi_ss)
        qb_ss == RDiv(One, RSub(R, delta))
        B_ss == RDiv(A_ss, qb_ss)
        u12 == RAdd(dstn_ss[1], dstn_ss[2])
        G_ss == RSub(RMul(RMul(tau_ss, wage_ss), dstn_ss[0]),
                     RAdd(RMul(UI, u12),
                          RSub(RMul(RAdd(One, RMul(delta, qb_ss)), B_ss),
                               RMul(qb_ss, B_ss))))
        kappa == RMul(<<7, 100>>, RMul(wage_ss, phi_ss))
        HC_ss == RAdd(RMul(RDiv(kappa, phi_ss),
                           RSub(One, RMul(RDiv(One, R),
                                          RSub(One, job_sep(p))))),
                      wage_ss)
        Z_ss == RDiv(HC_ss, MC_ss)
    IN  [v_ss |-> v_ss, delta |-> delta, qb_ss |-> qb_ss, B_ss |-> B_ss,
         G_ss |-> G_ss, kappa |-> kappa, HC_ss |-> HC_ss, Z_ss |-> Z_ss,
         Y_ss |-> RMul(Z_ss, N_ss), pi_ss |-> Zero]

\* the entries of SteadyState_Dict the residual blocks read, for the labor
\* market p
SteadyStateValues(p) ==
    LET Entries(lm, ge) ==
            [asset_mkt |-> Zero, lbp_resid |-> Zero, fiscal_resid |-> Zero,
                 taylor_resid |-> Zero, nkpc_resid |-> Zero,
                 U1 |-> lm.ss_dstn[1], U2 |-> lm.ss_dstn[2], U3 |-> lm.ss_dstn[3],
                 U4 |-> lm.ss_dstn[4], U5 |-> lm.ss_dstn[5],
                 MC |-> MC_ss, C |-> C_ss, r |-> r_ss, r_ante |-> r_ss,
                 Y |-> ge.Y_ss, B |-> ge.B_ss, G |-> ge.G_ss, A |-> A_ss,
                 tau |-> tau_ss, phi_b |-> phi_b, N |-> lm.N_ss, ev |-> Zero,
                 w |-> wage_ss, pi |-> ge.pi_ss, i |-> r_ss, qb |-> ge.qb_ss,
                 rho_r |-> rho_r, kappa_p |-> kappa_p_ss, phi_pi |-> phi_pi,
                 phi_y |-> phi_y, UI |-> UI, transfers |-> Zero, UI_extend |-> Zero,
                 UI_rr |-> Zero, B_ss |-> ge.B_ss, Y_ss |-> ge.Y_ss]
        WithLaborMarket(lm) ==
            CHOOSE ss \in
                {Entries(lm, ge) :
                 ge \in {calibrate_general_equilibrium(p, lm.N_ss, lm.ss_dstn)}} :
                TRUE
    IN  CHOOSE ss \in
            {WithLaborMarket(lm) : lm \in {calibrate_labor_market(p)}} : TRUE

\* np.log near 1: exact at 1, first order elsewhere
np_log(x) == RSub(x, One)

\* the blocks on constant paths at the values of ss: x(-1) = x(+1) = x
\* taylor_resid = i - rho_r * i(-1) - (1 - rho_r) * (phi_pi * pi + phi_y * Y) - ev
taylor(ss) ==
    RSub(RSub(RSub(ss.i, RMul(ss.rho_r, ss.i)),
              RMul(RSub(One, ss.rho_r),
                   RAdd(RMul(ss.phi_pi, ss.pi), RMul(ss.phi_y, ss.Y)))),
         ss.ev)

\* lbp_resid = qb - (1 + delta * qb(+1)) / (1 + r_ante)
longbonds_price(ss) ==
    RSub(ss.qb, RDiv(RAdd(One, RMul(delta, ss.qb)), RAdd(One, ss.r_ante)))

\* fiscal_resid of the block fiscal; B(deficit_T) = B on a constant path
fiscal(ss) ==
    LET u12 == RAdd(ss.U1, ss.U2)
        u34 == RAdd(ss.U3, ss.U4)
        net == RMul(wage_ss, RSub(One, tau_ss))
        spending ==
            RAdd(RAdd(RAdd(RAdd(RAdd(RMul(RAdd(One, RMul(delta, ss.qb)), ss.B),
                                     ss.G),
                                ss.transfers),
                           RMul(ss.UI, u12)),
                      RMul(RMul(ss.UI_rr, net), u12)),
                 RMul(RMul(ss.UI_extend, net), u34))
        rate == RAdd(tau_ss,
                     RDiv(RMul(RMul(ss.phi_b, ss.qb), RSub(ss.B, ss.B_ss)),
                          ss.Y_ss))
    IN  RSub(RSub(spending, RMul(ss.qb, ss.B)), RMul(RMul(rate, ss.w), ss.N))

\* nkpc_resid of the block Phillips_Curve
Phillips_Curve(ss) ==
    RSub(np_log(RAdd(One, ss.pi)),
         RAdd(RMul(ss.kappa_p, RSub(ss.MC, MC_ss)),
              RMul(RMul(RDiv(One, RAdd(One, ss.r_ante)), RDiv(ss.Y, ss.Y)),
                   np_log(RAdd(One, ss.pi)))))

\* asset_mkt = A - qb * B of the block mkt_clearing
mkt_clearing(ss) == RSub(ss.A, RMul(ss.qb, ss.B))

\* fisher_resid = 1 + r_ante - ((1 + i) / (1 + pi(+1)))
fisher_clearing(ss) ==
    RSub(RAdd(One, ss.r_ante), RDiv(RAdd(One, ss.i), RAdd(One, ss.pi)))

\* every residual of the claim, evaluated at ss
Residuals(ss) ==
    [taylor_resid |-> taylor(ss), lbp_resid |-> longbonds_price(ss),
     fiscal_resid |-> fiscal(ss), nkpc_resid |-> Phillips_Curve(ss),
     asset_mkt |-> mkt_clearing(ss), fisher_resid |-> fisher_clearing(ss)]

\* the steady-state dictionary at import time (the entries the experiment
\* functions read or write, and some they do not)
SteadyState_Dict_import ==
    [k \in {"phi_b", "phi_w", "rho_r", "kappa_p", "phi_pi", "phi_y",
             "deficit_T", "lag", "C", "tau", "transfers", "UI_extend"} |->
        CASE k = "phi_b" -> phi_b
          [] k = "phi_w" -> phi_w
          [] k = "rho_r" -> rho_r
          [] k = "kappa_p" -> kappa_p_ss
          [] k = "phi_pi" -> phi_pi
          [] k = "phi_y" -> phi_y
          [] k = "deficit_T" -> -1
          [] k = "lag" -> -1
          [] k = "C" -> C_ss
          [] k = "tau" -> tau_ss
          [] OTHER -> Zero]

\* keyword arguments a caller may pass
OverrideKeys ==
    {"phi_pi", "phi_y", "rho_r", "kappa_p", "phi_b", "real_wage_rigidity",
     "UI_extension_length", "tax_cut_length", "deficit_T", "lag",
     "status_callback"}

\* values tried for each keyword
OverrideValues(k) ==
    CASE k = "phi_pi" -> {<<5, 2>>, <<0, 1>>}
      [] k = "phi_y" -> {<<1, 2>>}
      [] k = "rho_r" -> {<<4, 5>>}
      [] k = "kappa_p" -> {<<65, 1000>>}
      [] k = "phi_b" -> {<<1, 10>>}
      [] k = "real_wage_rigidity" -> {<<19, 20>>}
      [] k = "UI_extension_length" -> {1, 2}
      [] k = "tax_cut_length" -> {2}
      [] k = "deficit_T" -> {-4}
      [] k = "lag" -> {3}
      [] OTHER -> {"callable"}

\* number of keywords passed in one call
MaxOverrides == 2

\* number of calls in a row
MaxCalls == 2

RECURSIVE OverridesUpTo(_)
OverridesUpTo(n) ==
    IF n = 0 THEN {<<>>}
    ELSE LET fewer == OverridesUpTo(n - 1)
         IN  fewer \cup
             UNION {UNION {{ov @@ (k :> v) : v \in OverrideValues(k)} :
                             k \in OverrideKeys \ DOMAIN ov} : ov \in fewer}

Overrides == OverridesUpTo(MaxOverrides)

\* variant of Get: the override is ignored
Get_default(ov, k, default) == default

\* param_overrides.get(k, default)
Get(ov, k, default) == IF k \in DOMAIN ov THEN ov[k] ELSE default

\* variant of deepcopy: no copy is made, the name refers to the same object
deepcopy_alias(obj) == [alias |-> TRUE, val |-> obj]

\* copy.deepcopy: a fresh object with the same content
deepcopy(obj) == [alias |-> FALSE, val |-> obj]

\* the object a name refers to after `target = deepcopy(source)` and writes
\* to target that produced `written`: the source is touched only if aliased
AfterWrites(cp, written) == IF cp.alias THEN written ELSE cp.val

\* variant of ShockPath: the window is one period too long
ShockPath_inclusive(length, value) ==
    [t \in Times |-> IF t <= length THEN value ELSE Zero]

\* x = np.zeros(bigT); x[:length] = value
ShockPath(length, value) ==
    [t \in Times |-> IF t < length THEN value ELSE Zero]

\* the value of an argument that is not passed
None == <<>>

\* variant of NPV_rate: period i is discounted i + 1 times
NPV_rate_late(irf, length, discount_rate) ==
    LET d == IF discount_rate = None THEN R ELSE discount_rate
    IN  RSum([k \in 0 .. (length - 1) |-> RDiv(irf[k], RPow(d, k + 1))],
             0, length - 1)

\* variant of NPV_rate: the sum starts at 1
NPV_rate_offset(irf, length, discount_rate) ==
    LET d == IF discount_rate = None THEN R ELSE discount_rate
    IN  RAdd(One, RSum([k \in 0 .. (length - 1) |-> RDiv(irf[k], RPow(d, k))],
                       0, length - 1))

\* NPV(irf, length, discount_rate = None) of hank_sam.py
NPV_rate(irf, length, discount_rate) ==
    LET d == IF discount_rate = None THEN R ELSE discount_rate
    IN  RSum([k \in 0 .. (length - 1) |-> RDiv(irf[k], RPow(d, k))],
             0, length - 1)

\* NPV(irf, length): the call that passes no discount_rate
NPV(irf, length) == NPV_rate(irf, length, None)

\* NPV(irf, length) of hafiscal.py: NPV = 0, then NPV += irf[i] / R ** i
\* for i = 0 .. length - 1
hafiscal_NPV(irf, length) ==
    LET acc[k \in 0 .. length] ==
            IF k = 0 THEN Zero
            ELSE RAdd(acc[k - 1], RDiv(irf[k - 1], RPow(R, k - 1)))
    IN  acc[length]

\* series of length bigT with entries in V
SeriesOver(V) == [Times -> V]

\* a * x + b * y, entry by entry
Combine(a, x, b, y) == [t \in Times |-> RAdd(RMul(a, x[t]), RMul(b, y[t]))]

\* the one input a shock dictionary names
ShockInput(shocks) == CHOOSE k \in DOMAIN shocks : TRUE

CostName(inp) ==
    CASE inp = "transfers" -> "transfers"
      [] inp = "UI_extend" -> "UI_extension_cost"
      [] OTHER -> "tax_cost"

\* ------------------------------------------------------------------------
\* SECTION 3 and 5: the blocks and the models composed of them
\* ------------------------------------------------------------------------
\* what a block reads: the arguments of its function (for a solved block,
\* those that are not its own unknown); a Jacobian dictionary reads the
\* inputs it has Jacobians for
BlockInputs(b) ==
    CASE b = "unemployment1" -> {"U1", "U2", "U3", "U4", "U5"}
      [] b = "marginal_cost" -> {"HC", "Z"}
      [] b = "hiring_cost" -> {"Z", "phi", "job_sep", "r_ante", "w"}
      [] b = "wage_" -> {"N", "phi_w"}
      [] b = "Phillips_Curve" -> {"MC", "Y", "r_ante", "kappa_p"}
      [] b = "taylor" -> {"pi", "Y", "ev", "rho_r", "phi_y", "phi_pi"}
      [] b = "taylor_lagged" ->
             {"pi", "Y", "ev", "rho_r", "phi_y", "phi_pi", "lag"}
      [] b = "matching" -> {"theta", "chi"}
      [] b = "fiscal" ->
             {"N", "qb", "G", "w", "v", "pi", "phi_b", "UI", "U1", "U2", "U3",
              "U4", "transfers", "UI_extend", "deficit_T", "UI_rr"}
      [] b = "fiscal_rule" -> {"B", "phi_b", "deficit_T"}
      [] b = "fiscal_G" ->
             {"N", "qb", "w", "v", "pi", "UI", "U1", "U2", "transfers",
              "phi_G", "tau", "deficit_T"}
      [] b = "fiscal_rule_G" -> {"B", "phi_G", "deficit_T"}
      [] b = "production" -> {"Z", "N"}
      [] b = "ex_post_longbonds_rate" -> {"qb"}
      [] b = "longbonds_price" -> {"r_ante"}
      [] b = "vacancies" -> {"N", "phi", "job_sep"}
      [] b = "mkt_clearing" ->
             {"C", "G", "A", "qb", "B", "w", "N", "U1", "U2", "U3", "U4", "U5"}
      [] b = "fisher_clearing" -> {"r_ante", "pi", "i"}
      [] b = "fisher_clearing_fixed_real_rate" -> {"pi"}
      [] b = "fiscal_fixed_real_rate" ->
             {"N", "G", "w", "v", "pi", "phi_b", "UI", "U1", "U2", "U3", "U4",
              "transfers", "UI_extend", "deficit_T", "UI_rr"}
      [] b = "fiscal_G_fixed_real_rate" ->
             {"N", "w", "v", "pi", "UI", "U1", "U2", "transfers", "phi_G",
              "tau", "deficit_T"}
      [] b = "UJAC_dict" -> {"eta"}
      [] OTHER -> JacInputs

\* what a block produces: the values it returns (for a solved block, its
\* unknown and the returned values that are not its target)
BlockOutputs(b) ==
    CASE b = "unemployment1" -> {"U"}
      [] b = "marginal_cost" -> {"MC"}
      [] b = "hiring_cost" -> {"HC"}
      [] b = "wage_" -> {"w"}
      [] b = "Phillips_Curve" -> {"pi"}
      [] b = "taylor" -> {"i"}
      [] b = "taylor_lagged" -> {"i"}
      [] b = "matching" -> {"eta", "phi"}
      [] b = "fiscal" -> {"B", "UI_extension_cost", "debt", "UI_rr_cost"}
      [] b = "fiscal_rule" -> {"tau"}
      [] b = "fiscal_G" -> {"B", "tax_cost"}
      [] b = "fiscal_rule_G" -> {"G"}
      [] b = "production" -> {"Y"}
      [] b = "ex_post_longbonds_rate" -> {"r"}
      [] b = "longbonds_price" -> {"qb"}
      [] b = "vacancies" -> {"v"}
      [] b = "mkt_clearing" -> {"goods_mkt", "asset_mkt", "Y_priv"}
      [] b = "fisher_clearing" -> {"fisher_resid"}
      [] b = "fisher_clearing_fixed_real_rate" -> {"i"}
      [] b = "fiscal_fixed_real_rate" ->
             {"B", "UI_extension_cost", "UI_rr_cost"}
      [] b = "fiscal_G_fixed_real_rate" -> {"B", "tax_cost"}
      [] b = "UJAC_dict" -> {"N", "U1", "U2", "U3", "U4", "U5"}
      [] b = "Jacobian_Dict_by_educ" ->
             {"C_dropout", "C_highschool", "C_college",
              "A_dropout", "A_highschool", "A_college"}
      [] OTHER -> {"C", "A"}

\* the blocks every model is made of
CommonBlocks ==
    {"Jacobian_Dict_by_educ", "production", "matching", "Phillips_Curve",
     "marginal_cost", "UJAC_dict", "hiring_cost", "wage_", "vacancies",
     "unemployment1", "mkt_clearing"}

\* variant of ModelBlocks: the fixed-real-rate models keep the Taylor rule
\* and the bond-pricing block
ModelBlocks_taylor(model) ==
    CommonBlocks \cup
    CASE model = "HANK_SAM" ->
           {"Jacobian_Dict", "fiscal", "longbonds_price",
            "ex_post_longbonds_rate", "fiscal_rule", "taylor", "fisher_clearing"}
      [] model = "HANK_SAM_tax_rate_shock" ->
           {"Jacobian_Dict", "fiscal_G", "longbonds_price",
            "ex_post_longbonds_rate", "fiscal_rule_G", "taylor",
            "fisher_clearing"}
      [] model = "HANK_SAM_lagged_taylor_rule" ->
           {"Jacobian_Dict", "fiscal", "longbonds_price",
            "ex_post_longbonds_rate", "fiscal_rule", "taylor_lagged",
            "fisher_clearing"}
      [] model = "HANK_SAM_fixed_real_rate" ->
           {"Jacobian_Dict", "fiscal_fixed_real_rate", "fiscal_rule",
            "taylor", "longbonds_price", "fisher_clearing_fixed_real_rate"}
      [] model = "HANK_SAM_fixed_real_rate_UI_extend_real" ->
           {"Jacobian_Dict_UI_extend_real", "fiscal_fixed_real_rate",
            "fiscal_rule", "taylor", "longbonds_price",
            "fisher_clearing_fixed_real_rate"}
      [] OTHER ->
           {"Jacobian_Dict", "fiscal_G_fixed_real_rate", "fiscal_rule_G",
            "taylor", "longbonds_price", "fisher_clearing_fixed_real_rate"}

\* the list of blocks each create_model call is given
ModelBlocks(model) ==
    CommonBlocks \cup
    CASE model = "HANK_SAM" ->
           {"Jacobian_Dict", "fiscal", "longbonds_price",
            "ex_post_longbonds_rate", "fiscal_rule", "taylor", "fisher_clearing"}
      [] model = "HANK_SAM_tax_rate_shock" ->
           {"Jacobian_Dict", "fiscal_G", "longbonds_price",
            "ex_post_longbonds_rate", "fiscal_rule_G", "taylor",
            "fisher_clearing"}
      [] model = "HANK_SAM_lagged_taylor_rule" ->
           {"Jacobian_Dict", "fiscal", "longbonds_price",
            "ex_post_longbonds_rate", "fiscal_rule", "taylor_lagged",
            "fisher_clearing"}
      [] model = "HANK_SAM_fixed_real_rate" ->
           {"Jacobian_Dict", "fiscal_fixed_real_rate", "fiscal_rule",
            "fisher_clearing_fixed_real_rate"}
      [] model = "HANK_SAM_fixed_real_rate_UI_extend_real" ->
           {"Jacobian_Dict_UI_extend_real", "fiscal_fixed_real_rate",
            "fiscal_rule", "fisher_clearing_fixed_real_rate"}
      [] OTHER ->
           {"Jacobian_Dict", "fiscal_G_fixed_real_rate", "fiscal_rule_G",
            "fisher_clearing_fixed_real_rate"}

\* everything some block of the model reads
ModelInputs(model) == UNION {BlockInputs(b) : b \in ModelBlocks(model)}

\* everything some block of the model produces
ModelOutputs(model) == UNION {BlockOutputs(b) : b \in ModelBlocks(model)}

\* the six models built by create_model
AllModels ==
    {"HANK_SAM", "HANK_SAM_tax_rate_shock", "HANK_SAM_lagged_taylor_rule",
     "HANK_SAM_fixed_real_rate", "HANK_SAM_fixed_real_rate_UI_extend_real",
     "HANK_SAM_tax_cut_fixed_real_rate"}

\* the unknowns and targets each model is solved with in the experiment
\* functions
ModelUnknowns(model) ==
    IF model \in {"HANK_SAM", "HANK_SAM_tax_rate_shock",
                  "HANK_SAM_lagged_taylor_rule"}
      THEN {"theta", "r_ante"} ELSE {"theta"}

ModelTargets(model) ==
    IF model \in {"HANK_SAM", "HANK_SAM_tax_rate_shock",
                  "HANK_SAM_lagged_taylor_rule"}
      THEN {"asset_mkt", "fisher_resid"} ELSE {"asset_mkt"}

\* the blocks of S left once every block whose inputs are produced by no
\* other block left has been taken out, again and again: the blocks on or
\* behind a cycle of the producer-consumer relation
RECURSIVE Unordered(_, _)
Unordered(S, given) ==
    LET ready == {b \in S : \A b2 \in S \ {b} :
                     BlockOutputs(b2) \cap (BlockInputs(b) \ given) = {}}
    IN  IF ready = {} THEN S ELSE Unordered(S \ ready, given)

\* create_model(blocks): the blocks, who produces each variable, and the
\* blocks that cannot be put in an order of evaluation
create_model(model) ==
    LET blocks == ModelBlocks(model)
    IN  [blocks |-> blocks,
         producers |-> [v \in UNION {BlockOutputs(b) : b \in blocks} |->
                          {b \in blocks : v \in BlockOutputs(b)}],
         unordered |-> Unordered(blocks, ModelUnknowns(model))]

\* the steady-state entry k as the model sees it: an entry no block of the
\* model reads has no part in the solution
SsInput(model, ss, k) ==
    IF k \in ModelInputs(model) /\ k \in DOMAIN ss THEN ss[k] ELSE Zero

\* model.solve_impulse_linear(ss, unknowns, targets, shocks) of the external
\* sequence-jacobian package: some linear response to the shock path,
\* depending on the model, on the steady-state entries its blocks read and
\* on the package (sj). The result holds a series for the cost, for C and
\* Y, and for r_ante and qb where the model determines them (as an unknown
\* or as the output of a block)
solve_impulse_linear(sj, model, ss, unknowns, targets, shocks) ==
    LET inp == ShockInput(shocks)
        x == shocks[inp]
        shift == CASE model = "HANK_SAM" -> <<1, 1>>
                   [] model = "HANK_SAM_tax_rate_shock" -> <<1, 1>>
                   [] model = "HANK_SAM_lagged_taylor_rule" -> <<3, 1>>
                   [] model = "HANK_SAM_fixed_real_rate_UI_extend_real" -> <<5, 1>>
                   [] OTHER -> <<2, 1>>
        rule == RAdd(RAdd(shift, RMul(<<2, 1>>, SsInput(model, ss, "phi_pi"))),
                     RAdd(RMul(<<2, 1>>, SsInput(model, ss, "phi_y")),
                          RMul(<<5, 1>>, SsInput(model, ss, "rho_r"))))
        size == RAdd(sj, rule)
        \* consumption rises with a transfer and falls with the tax rate
        gain == IF inp = "tau" THEN RNeg(size) ELSE size
        cfac == CASE inp = "transfers" -> One
                  [] inp = "UI_extend" -> <<1, 2>>
                  [] OTHER -> <<9, 10>>
        c == [t \in Times |->
                RAdd(RMul(gain, x[t]),
                     IF t > 0 THEN RMul(<<1, 2>>, x[t - 1]) ELSE Zero)]
        solved == (ModelOutputs(model) \cup {unknowns[n] : n \in DOMAIN unknowns})
                      \cap {"r_ante", "qb"}
    IN  (CostName(inp) :> [t \in Times |-> RMul(cfac, x[t])])
        @@ [v \in {"C", "Y"} |->
              IF v = "C" THEN c ELSE [t \in Times |-> RMul(<<2, 1>>, c[t])]]
        @@ [v \in solved |->
              IF v = "r_ante" THEN [t \in Times |-> RMul(<<1, 4>>, x[t])]
                              ELSE [t \in Times |-> RMul(<<-1, 2>>, x[t])]]

\* the record of one solve: what was handed to the solver and what it gave
SolveRec(sj, model, ss, unknowns, targets, shocks) ==
    [model |-> model, ss |-> ss, unknowns |-> unknowns, targets |-> targets,
     shocks |-> shocks,
     irf |-> solve_impulse_linear(sj, model, ss, unknowns, targets, shocks)]

\* the lists handed to the solver
unknowns == <<"theta", "r_ante">>

targets == <<"asset_mkt", "fisher_resid">>

\* variant of unknowns_fixed_real_rate: the real rate is left an unknown
unknowns_with_r_ante == <<"theta", "r_ante">>

unknowns_fixed_real_rate == <<"theta">>

targets_fixed_real_rate == <<"asset_mkt">>

\* variant of SetParams: deficit_T is read from the overrides
SetParams_deficit(d, ov) ==
    [d EXCEPT !["phi_b"] = Get(ov, "phi_b", phi_b),
              !["phi_w"] = Get(ov, "real_wage_rigidity", real_wage_rigidity),
              !["rho_r"] = Get(ov, "rho_r", rho_r),
              !["phi_y"] = Get(ov, "phi_y", phi_y),
              !["phi_pi"] = Get(ov, "phi_pi", phi_pi),
              !["kappa_p"] = Get(ov, "kappa_p", kappa_p_ss),
              !["deficit_T"] = Get(ov, "deficit_T", -1)]

\* the assignments shared by the UI-extension and transfer experiments
SetParams(d, ov) ==
    [d EXCEPT !["phi_b"] = Get(ov, "phi_b", phi_b),
              !["phi_w"] = Get(ov, "real_wage_rigidity", real_wage_rigidity),
              !["rho_r"] = Get(ov, "rho_r", rho_r),
              !["phi_y"] = Get(ov, "phi_y", phi_y),
              !["phi_pi"] = Get(ov, "phi_pi", phi_pi),
              !["kappa_p"] = Get(ov, "kappa_p", kappa_p_ss),
              !["deficit_T"] = -1]

\* variant of SetParamsTax: every keyword passed becomes an entry
SetParamsTax_update(d, ov) ==
    [k \in DOMAIN ov \ (DOMAIN d \cup {"phi_G"}) |-> ov[k]] @@
    ("phi_G" :> RNeg(Get(ov, "phi_b", phi_b))) @@
    [d EXCEPT !["phi_w"] = Get(ov, "real_wage_rigidity", real_wage_rigidity),
              !["rho_r"] = Get(ov, "rho_r", rho_r),
              !["phi_y"] = Get(ov, "phi_y", phi_y),
              !["phi_pi"] = Get(ov, "phi_pi", phi_pi),
              !["kappa_p"] = Get(ov, "kappa_p", kappa_p_ss),
              !["deficit_T"] = -1]

\* the assignments of the tax-cut experiment: phi_G is a new entry
SetParamsTax(d, ov) ==
    ("phi_G" :> RNeg(Get(ov, "phi_b", phi_b))) @@
    [d EXCEPT !["phi_w"] = Get(ov, "real_wage_rigidity", real_wage_rigidity),
              !["rho_r"] = Get(ov, "rho_r", rho_r),
              !["phi_y"] = Get(ov, "phi_y", phi_y),
              !["phi_pi"] = Get(ov, "phi_pi", phi_pi),
              !["kappa_p"] = Get(ov, "kappa_p", kappa_p_ss),
              !["deficit_T"] = -1]

\* run_ui_extension_experiments(param_overrides), G the module-level
\* SteadyState_Dict: the module-level dictionary afterwards, the solves in
\* order, and the returned tuple
run_ui_extension_experiments(G, sj, ov) ==
    LET ui_length == Get(ov, "UI_extension_length", UI_extension_length)
        shocks == [k \in {"UI_extend"} |-> ShockPath(ui_length, <<1, 5>>)]
        cp == deepcopy(G)
        ssd == SetParams(cp.val, ov)
        s1 == SolveRec(sj, "HANK_SAM", ssd, unknowns, targets, shocks)
        cp2 == deepcopy(ssd)
        ssd_fn == [cp2.val EXCEPT !["phi_pi"] = Zero]
        ssd2 == AfterWrites(cp2, ssd_fn)
        s2 == SolveRec(sj, "HANK_SAM", ssd_fn, unknowns, targets, shocks)
        s3 == SolveRec(sj, "HANK_SAM_fixed_real_rate", ssd2,
                       unknowns_fixed_real_rate, targets_fixed_real_rate, shocks)
        s4 == SolveRec(sj, "HANK_SAM_fixed_real_rate_UI_extend_real", ssd2,
                       unknowns_fixed_real_rate, targets_fixed_real_rate, shocks)
    IN  [glob |-> AfterWrites(cp, ssd2),
         solves |-> <<s1, s2, s3, s4>>,
         ret |-> <<s1.irf, s2.irf, s3.irf, s4.irf, ssd2, shocks>>]

\* run_transfer_experiments(param_overrides)
run_transfer_experiments(G, sj, ov) ==
    LET shocks == [k \in {"transfers"} |->
                     ShockPath(stimulus_check_length, RMul(C_ss, <<5, 100>>))]
        cp == deepcopy(G)
        ssd == SetParams(cp.val, ov)
        s1 == SolveRec(sj, "HANK_SAM", ssd, unknowns, targets, shocks)
        cp2 == deepcopy(ssd)
        ssd_fn == [cp2.val EXCEPT !["phi_pi"] = Zero]
        ssd2 == AfterWrites(cp2, ssd_fn)
        s2 == SolveRec(sj, "HANK_SAM", ssd_fn, unknowns, targets, shocks)
        s3 == SolveRec(sj, "HANK_SAM_fixed_real_rate", ssd2,
                       unknowns_fixed_real_rate, targets_fixed_real_rate, shocks)
        cp3 == deepcopy(ssd2)
        monetary_policy_lag == 2
        ssd_lag == [cp3.val EXCEPT !["lag"] = monetary_policy_lag]
        ssd3 == AfterWrites(cp3, ssd_lag)
        s4 == SolveRec(sj, "HANK_SAM_lagged_taylor_rule", ssd_lag,
                       unknowns, targets, shocks)
    IN  [glob |-> AfterWrites(cp, ssd3),
         solves |-> <<s1, s2, s3, s4>>,
         ret |-> <<s1.irf, s2.irf, s3.irf, s4.irf, ssd3, shocks>>]

\* run_tax_cut_experiments(param_overrides)
run_tax_cut_experiments(G, sj, ov) ==
    LET tax_length == Get(ov, "tax_cut_length", tax_cut_length)
        shocks == [k \in {"tau"} |-> ShockPath(tax_length, <<-1, 50>>)]
        cp == deepcopy(G)
        ssd == SetParamsTax(cp.val, ov)
        s1 == SolveRec(sj, "HANK_SAM_tax_rate_shock", ssd, unknowns, targets,
                       shocks)
        cp2 == deepcopy(ssd)
        ssd_fn == [cp2.val EXCEPT !["phi_pi"] = Zero]
        ssd2 == AfterWrites(cp2, ssd_fn)
        s2 == SolveRec(sj, "HANK_SAM_tax_rate_shock", ssd_fn, unknowns,
                       targets, shocks)
        s3 == SolveRec(sj, "HANK_SAM_tax_cut_fixed_real_rate", ssd2,
                       unknowns_fixed_real_rate, targets_fixed_real_rate, shocks)
    IN  [glob |-> AfterWrites(cp, ssd2),
         solves |-> <<s1, s2, s3>>,
         ret |-> <<s1.irf, s2.irf, s3.irf, ssd2, shocks>>]

\* variant of MultiplierArray: the numerator stops one period early
MultiplierArray_short(irf, cost, H) ==
    [k \in 0 .. (H - 1) |-> RDiv(NPV(irf["C"], k), NPV(irf[cost], bigT))]

\* variant of MultiplierArray: the horizon asked for is ignored
MultiplierArray_full(irf, cost, H) ==
    [k \in 0 .. (bigT - 1) |-> RDiv(NPV(irf["C"], k + 1), NPV(irf[cost], bigT))]

\* one multiplier array: element i is NPV(C, i + 1) / NPV(cost, 300), where
\* 300 is the length bigT of the series
MultiplierArray(irf, cost, H) ==
    [k \in 0 .. (H - 1) |-> RDiv(NPV(irf["C"], k + 1), NPV(irf[cost], bigT))]

\* the tax-cut arrays: -NPV(C, i + 1) / NPV(tax_cost, 300)
MultiplierArrayNeg(irf, cost, H) ==
    [k \in 0 .. (H - 1) |->
        RDiv(RNeg(NPV(irf["C"], k + 1)), NPV(irf[cost], bigT))]

MultiplierNames ==
    {"transfers", "UI_extend", "tax_cut",
     "transfers_fixed_nominal", "UI_extend_fixed_nominal", "tax_cut_fixed_nominal",
     "transfers_fixed_real", "UI_extend_fixed_real", "tax_cut_fixed_real"}

IrfNames ==
    {"UI_extend", "UI_extend_fixed_nominal", "UI_extend_fixed_real",
     "transfer", "transfer_fixed_nominal", "transfer_fixed_real",
     "tau", "tau_fixed_nominal", "tau_fixed_real"}

\* results["multipliers"] and results["irfs"], assembled from the tuples the
\* three experiment functions returned
FiscalResults(ui, tr, tx, H) ==
    [multipliers |->
        [n \in MultiplierNames |->
           CASE n = "transfers" ->
                  MultiplierArray(tr.ret[1], "transfers", H)
             [] n = "UI_extend" ->
                  MultiplierArray(ui.ret[1], "UI_extension_cost", H)
             [] n = "tax_cut" ->
                  MultiplierArrayNeg(tx.ret[1], "tax_cost", H)
             [] n = "transfers_fixed_nominal" ->
                  MultiplierArray(tr.ret[2], "transfers", H)
             [] n = "UI_extend_fixed_nominal" ->
                  MultiplierArray(ui.ret[2], "UI_extension_cost", H)
             [] n = "tax_cut_fixed_nominal" ->
                  MultiplierArrayNeg(tx.ret[2], "tax_cost", H)
             [] n = "transfers_fixed_real" ->
                  MultiplierArray(tr.ret[3], "transfers", H)
             [] n = "UI_extend_fixed_real" ->
                  MultiplierArray(ui.ret[3], "UI_extension_cost", H)
             [] OTHER ->
                  MultiplierArrayNeg(tx.ret[3], "tax_cost", H)],
     irfs |->
        [n \in IrfNames |->
           CASE n = "UI_extend" -> ui.ret[1]
             [] n = "UI_extend_fixed_nominal" -> ui.ret[2]
             [] n = "UI_extend_fixed_real" -> ui.ret[3]
             [] n = "transfer" -> tr.ret[1]
             [] n = "transfer_fixed_nominal" -> tr.ret[2]
             [] n = "transfer_fixed_real" -> tr.ret[3]
             [] n = "tau" -> tx.ret[1]
             [] n = "tau_fixed_nominal" -> tx.ret[2]
             [] OTHER -> tx.ret[3]]]

\* compute_fiscal_multipliers(horizon_length = H, **param_overrides): the
\* three experiment functions run once each, in this order, each on the
\* module-level dictionary the one before left behind
RunExperiments(G, sj, ov) ==
    LET AfterTaxCut(ui, tr) ==
            CHOOSE out \in
                {[ui |-> ui, tr |-> tr, tx |-> tx] :
                 tx \in {run_tax_cut_experiments(tr.glob, sj, ov)}} : TRUE
        AfterTransfer(ui) ==
            CHOOSE out \in
                {AfterTaxCut(ui, tr) :
                 tr \in {run_transfer_experiments(ui.glob, sj, ov)}} : TRUE
    IN  CHOOSE out \in
            {AfterTransfer(ui) :
             ui \in {run_ui_extension_experiments(G, sj, ov)}} : TRUE

\* what compute_fiscal_multipliers leaves and returns once the experiments
\* ran have run
FiscalOutcome(ran, H) ==
    [glob |-> ran.tx.glob,
     solves |-> ran.ui.solves \o ran.tr.solves \o ran.tx.solves,
     ret |-> FiscalResults(ran.ui, ran.tr, ran.tx, H)]

compute_fiscal_multipliers(G, sj, H, ov) ==
    CHOOSE out \in
        {FiscalOutcome(ran, H) : ran \in {RunExperiments(G, sj, ov)}} : TRUE

\* ------------------------------------------------------------------------
\* hafiscal.py, the script hank_sam.py refactors
\* ------------------------------------------------------------------------
\* the splurge loop of the script, run on Jacobian_Dict
hafiscal_splurge(JD) ==
    [C |-> [inp \in JacInputs |->
              IF inp \in PolicyInputs THEN splurge_jacobian(JD.C[inp], splurge)
                                      ELSE JD.C[inp]],
     A |-> [inp \in JacInputs |->
              IF inp \in PolicyInputs THEN RScale(RSub(One, splurge), JD.A[inp])
                                      ELSE JD.A[inp]]]

\* the two Jacobian dictionaries of the script when its models are created:
\* the splurge loop has run on Jacobian_Dict, and on nothing else
hafiscal_Jacobians(jac, real) ==
    [Jacobian_Dict |-> hafiscal_splurge(LoadMain(jac)),
     Jacobian_Dict_UI_extend_real |-> LoadUIReal(jac, real)]

\* the list of blocks each create_model call of the script is given
hafiscal_ModelBlocks(model) ==
    {"Jacobian_Dict_by_educ", "production", "matching", "Phillips_Curve",
     "marginal_cost", "UJAC_dict", "hiring_cost", "wage_", "vacancies",
     "unemployment1", "mkt_clearing"} \cup
    CASE model = "HANK_SAM" ->
           {"Jacobian_Dict", "fiscal", "longbonds_price",
            "ex_post_longbonds_rate", "fiscal_rule", "taylor", "fisher_clearing"}
      [] model = "HANK_SAM_tax_rate_shock" ->
           {"Jacobian_Dict", "fiscal_G", "longbonds_price",
            "ex_post_longbonds_rate", "fiscal_rule_G", "taylor",
            "fisher_clearing"}
      [] model = "HANK_SAM_lagged_taylor_rule" ->
           {"Jacobian_Dict", "fiscal", "longbonds_price",
            "ex_post_longbonds_rate", "fiscal_rule", "taylor_lagged",
            "fisher_clearing"}
      [] model = "HANK_SAM_fixed_real_rate" ->
           {"Jacobian_Dict", "fiscal_fixed_real_rate", "fiscal_rule",
            "fisher_clearing_fixed_real_rate"}
      [] model = "HANK_SAM_fixed_real_rate_UI_extend_real" ->
           {"Jacobian_Dict_UI_extend_real", "fiscal_fixed_real_rate",
            "fiscal_rule", "fisher_clearing_fixed_real_rate"}
      [] OTHER ->
           {"Jacobian_Dict", "fiscal_G_fixed_real_rate", "fiscal_rule_G",
            "fisher_clearing_fixed_real_rate"}

\* the solves of the script in the order it makes them: UI extension
\* (standard, fixed nominal rate, lagged rule, fixed real rate, realized),
\* transfers (standard, fixed nominal rate, lagged rule, fixed real rate),
\* tax cut (standard, fixed nominal rate, fixed real rate)
hafiscal_solves(sj) ==
    LET monetary_policy_lag == 2
        shocks_UI_extension ==
            [k \in {"UI_extend"} |-> ShockPath(UI_extension_length, <<1, 5>>)]
        ssd_UI == [SteadyState_Dict_import EXCEPT
                      !["phi_b"] = phi_b, !["phi_w"] = real_wage_rigidity,
                      !["rho_r"] = rho_r, !["phi_y"] = phi_y,
                      !["phi_pi"] = phi_pi, !["deficit_T"] = -1]
        shocks_transfers ==
            [k \in {"transfers"} |->
                ShockPath(stimulus_check_length, RMul(C_ss, <<5, 100>>))]
        ssd_tr == [SteadyState_Dict_import EXCEPT
                      !["phi_b"] = phi_b, !["phi_w"] = real_wage_rigidity,
                      !["rho_r"] = rho_r, !["phi_y"] = phi_y,
                      !["phi_pi"] = phi_pi, !["deficit_T"] = -1]
        shocks_tau == [k \in {"tau"} |-> ShockPath(tax_cut_length, <<-1, 50>>)]
        ssd_tax == ("phi_G" :> RNeg(phi_b)) @@
                   [SteadyState_Dict_import EXCEPT
                      !["phi_w"] = real_wage_rigidity,
                      !["rho_r"] = rho_r, !["phi_y"] = phi_y,
                      !["phi_pi"] = phi_pi, !["deficit_T"] = -1]
    IN  << SolveRec(sj, "HANK_SAM", ssd_UI, <<"theta", "r_ante">>,
                    <<"asset_mkt", "fisher_resid">>, shocks_UI_extension),
           SolveRec(sj, "HANK_SAM", [ssd_UI EXCEPT !["phi_pi"] = Zero],
                    <<"theta", "r_ante">>, <<"asset_mkt", "fisher_resid">>,
                    shocks_UI_extension),
           SolveRec(sj, "HANK_SAM_lagged_taylor_rule",
                    [ssd_UI EXCEPT !["lag"] = monetary_policy_lag],
                    <<"theta", "r_ante">>, <<"asset_mkt", "fisher_resid">>,
                    shocks_UI_extension),
           SolveRec(sj, "HANK_SAM_fixed_real_rate", ssd_UI, <<"theta">>,
                    <<"asset_mkt">>, shocks_UI_extension),
           SolveRec(sj, "HANK_SAM_fixed_real_rate_UI_extend_real", ssd_UI,
                    <<"theta">>, <<"asset_mkt">>, shocks_UI_extension),
           SolveRec(sj, "HANK_SAM", ssd_tr, <<"theta", "r_ante">>,
                    <<"asset_mkt", "fisher_resid">>, shocks_transfers),
           SolveRec(sj, "HANK_SAM", [ssd_tr EXCEPT !["phi_pi"] = Zero],
                    <<"theta", "r_ante">>, <<"asset_mkt", "fisher_resid">>,
                    shocks_transfers),
           SolveRec(sj, "HANK_SAM_lagged_taylor_rule",
                    [ssd_tr EXCEPT !["lag"] = monetary_policy_lag],
                    <<"theta", "r_ante">>, <<"asset_mkt", "fisher_resid">>,
                    shocks_transfers),
           SolveRec(sj, "HANK_SAM_fixed_real_rate", ssd_tr, <<"theta">>,
                    <<"asset_mkt">>, shocks_transfers),
           SolveRec(sj, "HANK_SAM_tax_rate_shock", ssd_tax,
                    <<"theta", "r_ante">>, <<"asset_mkt", "fisher_resid">>,
                    shocks_tau),
           SolveRec(sj, "HANK_SAM_tax_rate_shock",
                    [ssd_tax EXCEPT !["phi_pi"] = Zero],
                    <<"theta", "r_ante">>, <<"asset_mkt", "fisher_resid">>,
                    shocks_tau),
           SolveRec(sj, "HANK_SAM_tax_cut_fixed_real_rate", ssd_tax,
                    <<"theta">>, <<"asset_mkt">>, shocks_tau) >>

\* the multiplier loop of the script over the solves sv it made:
\* for i in range(horizon_length), nine assignments
hafiscal_multipliers(sv, horizon_length) ==
    LET Ratio(irf, cost, k) ==
            RDiv(hafiscal_NPV(irf["C"], k + 1), hafiscal_NPV(irf[cost], bigT))
        Arr(irf, cost) == [k \in 0 .. (horizon_length - 1) |-> Ratio(irf, cost, k)]
        Neg(irf, cost) ==
            [k \in 0 .. (horizon_length - 1) |->
                RDiv(RNeg(hafiscal_NPV(irf["C"], k + 1)),
                     hafiscal_NPV(irf[cost], bigT))]
    IN  [n \in MultiplierNames |->
           CASE n = "transfers_fixed_nominal" -> Arr(sv[7].irf, "transfers")
             [] n = "UI_extend_fixed_nominal" ->
                    Arr(sv[2].irf, "UI_extension_cost")
             [] n = "tax_cut_fixed_nominal" -> Neg(sv[11].irf, "tax_cost")
             [] n = "transfers" -> Arr(sv[6].irf, "transfers")
             [] n = "UI_extend" -> Arr(sv[1].irf, "UI_extension_cost")
             [] n = "tax_cut" -> Neg(sv[10].irf, "tax_cost")
             [] n = "transfers_fixed_real" -> Arr(sv[9].irf, "transfers")
             [] n = "UI_extend_fixed_real" ->
                    Arr(sv[4].irf, "UI_extension_cost")
             [] OTHER -> Neg(sv[12].irf, "tax_cost")]

\* responses the external solver may have (see solve_impulse_linear)
SolverGains == {<<1, 1>>, <<2, 1>>}

VARIABLES
    module,   \* "hank_sam" (the function) or "hafiscal" (the inline loop)
    par,      \* the calibration
    dstn,     \* the running distribution
    UJAC,     \* UJAC[<<i, s>>] : the vector over the states
    s, i,     \* loop counters
    upc,      \* "idle" | "loop" | "done"
    colstart, \* history: colstart[s] = the distribution column s started from
    HA_fiscal_JAC,                \* content of HA_Fiscal_Jacs.obj
    UI_extend_realized_Jacs,      \* content of HA_Fiscal_Jacs_UI_extend_real.obj
    Jacobian_Dict,                \* module-level dictionary
    Jacobian_Dict_UI_extend_real, \* module-level dictionary
    spc,      \* "idle" | "loaded" | "splurged" | "splurged_real" | "models"
    SteadyState_Dict, \* module-level dictionary
    solver,   \* the response of the external solver
    epc,      \* "off" | "idle" | "returned" | "raised"
    call,     \* the call that returned last: function, horizon, overrides
    solves,   \* the solves that call made, in order
    ret,      \* what that call returned
    ncalls,   \* number of calls made so far
    exc,      \* the exception of that call: raised, where, seen by the caller
    pcall,    \* a call of one of the module's functions: name and arguments
    pret,     \* what it returned
    ppc,      \* "off" | "idle" | "returned"
    run_button,     \* the dashboard's button: its attribute disabled
    progress_label, \* the status shown: message and dot
    fig1_output,    \* Output widget: what it shows, and a clear put off
    fig2_output,    \* Output widget
    widgets,        \* the slider values the running handler read
    outcome,        \* how the handler's computation ended
    dpc,            \* "off" | "idle" | "computing" | "plotting" | "except" | "done"
    clicks          \* number of clicks handled so far

uvars == <<module, par, dstn, UJAC, s, i, upc, colstart>>

svars == <<HA_fiscal_JAC, UI_extend_realized_Jacs, Jacobian_Dict,
           Jacobian_Dict_UI_extend_real, spc>>

evars == <<SteadyState_Dict, solver, epc, call, solves, ret, ncalls, exc>>

pvars == <<pcall, pret, ppc>>

dvars == <<run_button, progress_label, fig1_output, fig2_output, widgets,
           outcome, dpc, clicks>>

VARIABLES
    resfile,  \* the lines of the results file of the estimates
    opt,      \* opt_params of this run, by education group
    myEstim,  \* the list the read-back loop fills
    readStr,  \* the line the read-back loop holds
    betFile,  \* the read position in the results file (0: not open)
    fpc,      \* where the estimation script is
    runs      \* the number of runs started

fvars == <<resfile, opt, myEstim, readStr, betFile, fpc, runs>>

vars == <<uvars, svars, evars, pvars, dvars, fvars>>

\* no exception
NoError == "none"

NoException == [thrown |-> NoError, at |-> 0, seen |-> NoError]

\* the unemployment-Jacobian loop is not running
UIdle ==
    /\ module = "hank_sam"
    /\ par = [job_find |-> <<1, 2>>, EU_prob |-> <<1, 2>>, dx |-> <<1, 2>>]
    /\ dstn = ZeroVec
    /\ UJAC = <<>>
    /\ s = 0
    /\ i = 0
    /\ upc = "idle"
    /\ colstart = <<>>

\* no Jacobian file has been read
SIdle ==
    /\ HA_fiscal_JAC = <<>>
    /\ UI_extend_realized_Jacs = <<>>
    /\ Jacobian_Dict = <<>>
    /\ Jacobian_Dict_UI_extend_real = <<>>
    /\ spc = "idle"

\* no experiment function is being called
EIdle ==
    /\ SteadyState_Dict = SteadyState_Dict_import
    /\ solver = One
    /\ epc = "off"
    /\ call = <<>>
    /\ solves = <<>>
    /\ ret = <<>>
    /\ ncalls = 0
    /\ exc = NoException

\* no function is called on its own
PIdle ==
    /\ pcall = <<>>
    /\ pret = <<>>
    /\ ppc = "off"

\* update_status(msg, is_final, is_error): the message and the dot shown
update_status(msg, is_final, is_error) ==
    IF is_error THEN [msg |-> msg, dot |-> "orange", pulse |-> FALSE]
    ELSE IF is_final THEN [msg |-> "Complete", dot |-> "green", pulse |-> FALSE]
    ELSE [msg |-> "Solving...", dot |-> "orange", pulse |-> TRUE]

\* the status shown before the first click
initial_status ==
    [msg |-> "Ready to run simulation", dot |-> "grey", pulse |-> FALSE]

\* an Output widget showing the placeholder
placeholder == [outputs |-> <<"placeholder">>, clear_next |-> FALSE]

\* the dashboard is not shown
DIdle ==
    /\ run_button = [disabled |-> FALSE]
    /\ progress_label = initial_status
    /\ fig1_output = placeholder
    /\ fig2_output = placeholder
    /\ widgets = <<>>
    /\ outcome = <<>>
    /\ dpc = "off"
    /\ clicks = 0

\* the script does not run
FIdle ==
    /\ resfile = <<>>
    /\ opt = <<>>
    /\ myEstim = <<>>
    /\ readStr = <<>>
    /\ betFile = 0
    /\ fpc = "off"
    /\ runs = 0

\* dstn = ss_dstn.copy() ; UJAC = np.zeros(...)
UInit ==
    /\ module \in {"hank_sam", "hafiscal"}
    /\ par \in Calibrations
    /\ dstn = ss_dstn(par)
    /\ UJAC = [c \in Times \X Times |-> ZeroVec]
    /\ s = 0
    /\ i = 0
    /\ upc = "loop"
    /\ colstart = [c \in Times |-> ZeroVec]

\* for s in range(bigT): for i in range(bigT): <body>
UStep ==
    /\ upc = "loop"
    /\ dstn' = StepDstn(par, dstn, i, s)
    /\ UJAC' = [UJAC EXCEPT ![<<i, s>>] = JacEntry(par, dstn')]
    /\ IF i + 1 < bigT
         THEN i' = i + 1 /\ s' = s /\ upc' = upc
         ELSE IF s + 1 < bigT
                THEN i' = 0 /\ s' = s + 1 /\ upc' = upc
                ELSE i' = i /\ s' = s /\ upc' = "done"
    /\ colstart' = IF i = 0 THEN [colstart EXCEPT ![s] = dstn] ELSE colstart
    /\ UNCHANGED <<module, par>>
    /\ UNCHANGED <<svars, evars, pvars, dvars, fvars>>

UNext == UStep

\* only the unemployment-Jacobian loop runs
InitUJAC == UInit /\ SIdle /\ EIdle /\ PIdle /\ DIdle /\ FIdle

SpecUJAC == InitUJAC /\ [][UNext]_vars

\* Jacobian_Dict, ..., Jacobian_Dict_UI_extend_real = load_jacobians()
SInit ==
    /\ \E pc \in Profiles, pa \in {Profile(0, 1, 0), Profile(1, 1, 0)} :
          HA_fiscal_JAC = Pickle(pc, pa)
    /\ \E rc \in {Profile(1, 0, 0), Profile(1, 1, 1)} :
          UI_extend_realized_Jacs = [C |-> rc, A |-> Profile(0, 1, 0)]
    /\ Jacobian_Dict = LoadMain(HA_fiscal_JAC)
    /\ Jacobian_Dict_UI_extend_real =
          LoadUIReal(HA_fiscal_JAC, UI_extend_realized_Jacs)
    /\ spc = "loaded"

\* Jacobian_Dict = apply_splurge_behavior(Jacobian_Dict)
SplurgeMain ==
    /\ spc = "loaded"
    /\ Jacobian_Dict' = apply_splurge_behavior(Jacobian_Dict)
    /\ spc' = "splurged"
    /\ UNCHANGED <<HA_fiscal_JAC, UI_extend_realized_Jacs,
                   Jacobian_Dict_UI_extend_real>>
    /\ UNCHANGED <<uvars, evars, pvars, dvars, fvars>>

\* Jacobian_Dict_UI_extend_real = apply_splurge_behavior(...)
SplurgeUIReal ==
    /\ spc = "splurged"
    /\ Jacobian_Dict_UI_extend_real' =
          apply_splurge_behavior(Jacobian_Dict_UI_extend_real)
    /\ spc' = "splurged_real"
    /\ UNCHANGED <<HA_fiscal_JAC, UI_extend_realized_Jacs, Jacobian_Dict>>
    /\ UNCHANGED <<uvars, evars, pvars, dvars, fvars>>

\* the create_model calls: the dictionaries are handed to the models
CreateModels ==
    /\ spc = "splurged_real"
    /\ spc' = "models"
    /\ UNCHANGED <<HA_fiscal_JAC, UI_extend_realized_Jacs, Jacobian_Dict,
                   Jacobian_Dict_UI_extend_real>>
    /\ UNCHANGED <<uvars, evars, pvars, dvars, fvars>>

SNext == SplurgeMain \/ SplurgeUIReal \/ CreateModels

\* only the loading and splurge adjustment of the Jacobians runs
InitSplurge == SInit /\ UIdle /\ EIdle /\ PIdle /\ DIdle /\ FIdle

SpecSplurge == InitSplurge /\ [][SNext]_vars

\* the module has been imported
EInit ==
    /\ SteadyState_Dict = SteadyState_Dict_import
    /\ solver \in SolverGains
    /\ epc = "idle"
    /\ call = <<>>
    /\ solves = <<>>
    /\ ret = <<>>
    /\ ncalls = 0
    /\ exc = NoException

\* the state after a call that produced out
Returned(fn, H, ov, out) ==
    /\ SteadyState_Dict' = out.glob
    /\ call' = [fn |-> fn, H |-> H, ov |-> ov]
    /\ solves' = out.solves
    /\ ret' = out.ret
    /\ epc' = "returned"
    /\ ncalls' = ncalls + 1
    /\ exc' = NoException
    /\ UNCHANGED solver
    /\ UNCHANGED <<uvars, svars, pvars, dvars, fvars>>

CallRunUI ==
    /\ epc = "idle"
    /\ \E ov \in Overrides :
          Returned("run_ui_extension_experiments", 0, ov,
                   run_ui_extension_experiments(SteadyState_Dict, solver, ov))

CallRunTransfer ==
    /\ epc = "idle"
    /\ \E ov \in Overrides :
          Returned("run_transfer_experiments", 0, ov,
                   run_transfer_experiments(SteadyState_Dict, solver, ov))

CallRunTaxCut ==
    /\ epc = "idle"
    /\ \E ov \in Overrides :
          Returned("run_tax_cut_experiments", 0, ov,
                   run_tax_cut_experiments(SteadyState_Dict, solver, ov))

CallComputeFiscalMultipliers ==
    /\ epc = "idle"
    /\ \E ov \in Overrides :
          \E ran \in {RunExperiments(SteadyState_Dict, solver, ov)} :
              \E H \in 0 .. bigT :
                  Returned("compute_fiscal_multipliers", H, ov,
                           FiscalOutcome(ran, H))

\* the caller is done with the result, or with the exception, and may call
\* again
NextCall ==
    /\ epc \in {"returned", "raised"}
    /\ ncalls < MaxCalls
    /\ epc' = "idle"
    /\ call' = <<>>
    /\ solves' = <<>>
    /\ ret' = <<>>
    /\ exc' = NoException
    /\ UNCHANGED <<SteadyState_Dict, solver, ncalls>>
    /\ UNCHANGED <<uvars, svars, pvars, dvars, fvars>>

ENext ==
    \/ CallRunUI
    \/ CallRunTransfer
    \/ CallRunTaxCut
    \/ CallComputeFiscalMultipliers
    \/ NextCall

\* the solves a call of fn makes when none of them raises, in order
Attempts(fn, G, sj, ov) ==
    CASE fn = "run_ui_extension_experiments" ->
           run_ui_extension_experiments(G, sj, ov).solves
      [] fn = "run_transfer_experiments" ->
           run_transfer_experiments(G, sj, ov).solves
      [] fn = "run_tax_cut_experiments" ->
           run_tax_cut_experiments(G, sj, ov).solves
      [] OTHER ->
           CHOOSE all \in
               {CHOOSE rest \in
                    {CHOOSE last \in
                         {ui.solves \o tr.solves \o tx.solves :
                          tx \in {run_tax_cut_experiments(tr.glob, sj, ov)}} :
                         TRUE :
                     tr \in {run_transfer_experiments(ui.glob, sj, ov)}} :
                    TRUE :
                ui \in {run_ui_extension_experiments(G, sj, ov)}} : TRUE

\* the keyword arguments of the calls in which something raises
RaisingOverrides == OverridesUpTo(1)

\* what the external solver may raise
SolverErrors == {"LinAlgError", "ValueError"}

\* variant of Raised: the exception is swallowed and the responses of the
\* solves made so far are returned
Raised_partial(fn, H, ov, done, e, at) ==
    /\ call' = [fn |-> fn, H |-> H, ov |-> ov]
    /\ solves' = done
    /\ ret' = [n \in DOMAIN done |-> done[n].irf]
    /\ epc' = "returned"
    /\ ncalls' = ncalls + 1
    /\ exc' = [thrown |-> e, at |-> at, seen |-> NoError]
    /\ UNCHANGED <<SteadyState_Dict, solver>>
    /\ UNCHANGED <<uvars, svars, pvars, dvars, fvars>>

\* the state after a call in which e was raised once the solves of done had
\* been made: no function of the module has a try statement, so the
\* statement that raises ends every function on the stack; nothing is
\* returned and the caller sees e. The writes made so far went to the deep
\* copy, so the module-level dictionary is as it was
Raised(fn, H, ov, done, e, at) ==
    /\ call' = [fn |-> fn, H |-> H, ov |-> ov]
    /\ solves' = done
    /\ ret' = <<>>
    /\ epc' = "raised"
    /\ ncalls' = ncalls + 1
    /\ exc' = [thrown |-> e, at |-> at, seen |-> e]
    /\ UNCHANGED <<SteadyState_Dict, solver>>
    /\ UNCHANGED <<uvars, svars, pvars, dvars, fvars>>

\* a call in which the solver raises in solve number k
CallSolveRaises ==
    /\ epc = "idle"
    /\ \E fn \in {"run_ui_extension_experiments", "run_transfer_experiments",
                   "run_tax_cut_experiments", "compute_fiscal_multipliers"} :
       \E ov \in RaisingOverrides :
       \E tries \in {Attempts(fn, SteadyState_Dict, solver, ov)} :
       \E k \in DOMAIN tries : \E e \in SolverErrors :
          Raised(fn, IF fn = "compute_fiscal_multipliers" THEN 1 ELSE 0, ov,
                 SubSeq(tries, 1, k - 1), e, k)

\* NPV(irf, length) raises where irf[i] does: length is past the end of irf
NPV_raises(irf, length) == \E n \in 0 .. (length - 1) : n \notin DOMAIN irf

\* compute_fiscal_multipliers(horizon_length = H) with H past the end of
\* the responses: every solve is made, then NPV(..., i + 1) raises in the
\* multiplier loop
CallNPVRaises ==
    /\ epc = "idle"
    /\ \E ov \in RaisingOverrides : \E H \in {bigT + 1, bigT + 2} :
       \E tries \in {Attempts("compute_fiscal_multipliers", SteadyState_Dict,
                              solver, ov)} :
          /\ NPV_raises(tries[2].irf["C"], H)
          /\ Raised("compute_fiscal_multipliers", H, ov, tries, "IndexError",
                    Len(tries) + 1)

\* the multipliers that are returned are those of SpecExperiments; here a
\* call returns or raises
RNext ==
    \/ CallRunUI
    \/ CallRunTransfer
    \/ CallRunTaxCut
    \/ CallSolveRaises
    \/ CallNPVRaises
    \/ NextCall

\* only the experiment functions are called
InitExperiments == EInit /\ UIdle /\ SIdle /\ PIdle /\ DIdle /\ FIdle

SpecExperiments == InitExperiments /\ [][ENext]_vars

\* compute_fiscal_multipliers alone is called, as the dashboard does
CNext == CallComputeFiscalMultipliers \/ NextCall

SpecMultipliers == InitExperiments /\ [][CNext]_vars

\* the experiment functions are called, and a solve or an NPV may raise
SpecRaising == InitExperiments /\ [][RNext]_vars

\* ------------------------------------------------------------------------
\* app.py: the dashboard's click handler
\* ------------------------------------------------------------------------
\* number of clicks on run_button
MaxClicks == 3

\* IPython's clear_output inside `with output:`: with wait = True the
\* widget keeps what it shows until the next output arrives
clear_output(output, wait) ==
    IF wait THEN [output EXCEPT !.clear_next = TRUE]
            ELSE [outputs |-> <<>>, clear_next |-> FALSE]

\* display(item) inside `with output:`
display(output, item) ==
    IF output.clear_next
      THEN [outputs |-> <<item>>, clear_next |-> FALSE]
      ELSE [outputs |-> Append(output.outputs, item), clear_next |-> FALSE]

\* slider positions tried (UI extension 1 .. 12, tax cut 1 .. 16)
WidgetValues ==
    { [UI_extension_length |-> u, tax_cut_length |-> x] :
        u \in {1, 4, 12}, x \in {1, 8, 16} }

\* what the computation may raise
DashboardErrors == {"LinAlgError: singular matrix", "IndexError"}

\* the dashboard is shown and waits for a click
DInit ==
    /\ run_button = [disabled |-> FALSE]
    /\ progress_label = initial_status
    /\ fig1_output = placeholder
    /\ fig2_output = placeholder
    /\ widgets = <<>>
    /\ outcome = <<>>
    /\ dpc = "idle"
    /\ clicks = 0

\* update_plots, up to the try statement: the button is disabled, the
\* status says Solving... and the sliders are read
Click ==
    /\ dpc \in {"idle", "done"}
    /\ clicks < MaxClicks
    /\ run_button' = [disabled |-> TRUE]
    /\ progress_label' = update_status("Solving...", FALSE, FALSE)
    /\ \E w \in WidgetValues : widgets' = w
    /\ outcome' = <<>>
    /\ dpc' = "computing"
    /\ clicks' = clicks + 1
    /\ UNCHANGED <<fig1_output, fig2_output>>
    /\ UNCHANGED <<uvars, svars, evars, pvars, fvars>>

\* hs.compute_fiscal_multipliers(...) returns
ComputeReturns ==
    /\ dpc = "computing"
    /\ outcome' = [raised |-> FALSE, e |-> ""]
    /\ dpc' = "plotting"
    /\ UNCHANGED <<run_button, progress_label, fig1_output, fig2_output,
                   widgets, clicks>>
    /\ UNCHANGED <<uvars, svars, evars, pvars, fvars>>

\* hs.compute_fiscal_multipliers(...) raises e
ComputeRaises ==
    /\ dpc = "computing"
    /\ \E e \in DashboardErrors : outcome' = [raised |-> TRUE, e |-> e]
    /\ dpc' = "except"
    /\ UNCHANGED <<run_button, progress_label, fig1_output, fig2_output,
                   widgets, clicks>>
    /\ UNCHANGED <<uvars, svars, evars, pvars, fvars>>

\* the rest of the try block: both figures are drawn in their widgets, the
\* status says Complete and the button is enabled
ShowResults ==
    /\ dpc = "plotting"
    /\ fig1_output' = display(clear_output(fig1_output, TRUE),
                              [fig |-> "multipliers", of |-> widgets])
    /\ fig2_output' = display(clear_output(fig2_output, TRUE),
                              [fig |-> "consumption", of |-> widgets])
    /\ progress_label' = update_status("Complete", TRUE, FALSE)
    /\ run_button' = [disabled |-> FALSE]
    /\ dpc' = "done"
    /\ UNCHANGED <<widgets, outcome, clicks>>
    /\ UNCHANGED <<uvars, svars, evars, pvars, fvars>>

\* except Exception as e: the status shows the error, the button is
\* enabled and clear_output(wait=True) runs in both figure widgets
HandleError ==
    /\ dpc = "except"
    /\ progress_label' = update_status("Error: " \o outcome.e, FALSE, TRUE)
    /\ run_button' = [disabled |-> FALSE]
    /\ fig1_output' = clear_output(fig1_output, TRUE)
    /\ fig2_output' = clear_output(fig2_output, TRUE)
    /\ dpc' = "done"
    /\ UNCHANGED <<widgets, outcome, clicks>>
    /\ UNCHANGED <<uvars, svars, evars, pvars, fvars>>

DNext ==
    \/ Click
    \/ ComputeReturns
    \/ ComputeRaises
    \/ ShowResults
    \/ HandleError

\* only the dashboard runs
InitDashboard == DInit /\ UIdle /\ SIdle /\ EIdle /\ PIdle /\ FIdle

SpecDashboard == InitDashboard /\ [][DNext]_vars

\* ------------------------------------------------------------------------
\* EstimAggFiscalMAIN.py: the estimates are written and read back
\* ------------------------------------------------------------------------
\* number of runs of the script, one after the other on the same file
MaxRuns == 2

\* the education groups
EducationGroups == {0, 1, 2}

\* what minimize_nelder_mead may return: <<beta, nabla, GICx>>
Estimates == {<<<<3, 4>>, <<3, 10>>, 6>>, <<<<93, 100>>, <<3, 25>>, 5>>}

\* the mode the file is opened in when the result of edType is written
WriteMode(edType) == IF edType = 0 THEN "a" ELSE "a"

\* with open(name, mode) as f: f.write(text), on the lines the file holds
WriteLines(file, mode, lines) ==
    IF mode = "w" THEN lines ELSE file \o lines

\* repr({'EducationGroup': edType, 'beta': .., 'nabla': .., 'GICx': ..}) + newline
DictLine(edType, params) ==
    [kind |-> "dict",
     text |-> <<"EducationGroup", edType, "beta", params[1],
                "nabla", params[2], "GICx", params[3]>>]

BlankLine == [kind |-> "blank", text |-> <<>>]

ParametersLine == [kind |-> "text", text |-> <<"Parameters">>]

\* betFile.readline().strip() at position pos: the empty string for a blank
\* line and at the end of the file
ReadLine(file, pos) ==
    IF pos > Len(file) \/ file[pos].kind = "blank"
      THEN [kind |-> "empty", text |-> <<>>]
      ELSE file[pos]

\* eval(readStr) of a line repr wrote
EvalDict(line) ==
    [EducationGroup |-> line.text[2], beta |-> line.text[4],
     nabla |-> line.text[6], GICx |-> line.text[8]]

\* np.exp(GICx) / (1 + np.exp(GICx)), left uninterpreted
GICfactor(GICx) == <<"logistic", GICx>>

\* the script starts and there is no results file yet
FInit ==
    /\ resfile = <<>>
    /\ opt = <<>>
    /\ myEstim = <<>>
    /\ readStr = <<>>
    /\ betFile = 0
    /\ fpc = "estimating"
    /\ runs = 1

\* one pass of `for edType in [0, 1, 2]`: the optimizer returns and the
\* result is written
Estimate ==
    /\ fpc = "estimating"
    /\ \E opt_params \in Estimates :
          LET edType == Len(opt)
          IN  /\ opt' = Append(opt, opt_params)
              /\ resfile' = WriteLines(resfile, WriteMode(edType),
                                       <<DictLine(edType, opt_params)>>)
    /\ fpc' = IF Len(opt') = Cardinality(EducationGroups) THEN "estimated"
                                                          ELSE "estimating"
    /\ UNCHANGED <<myEstim, readStr, betFile, runs>>
    /\ UNCHANGED <<uvars, svars, evars, pvars, dvars>>

\* the line of parameters is appended after the loop, behind a blank line
WriteParameters ==
    /\ fpc = "estimated"
    /\ resfile' = WriteLines(resfile, "a", <<BlankLine, ParametersLine>>)
    /\ fpc' = "written"
    /\ UNCHANGED <<opt, myEstim, readStr, betFile, runs>>
    /\ UNCHANGED <<uvars, svars, evars, pvars, dvars>>

\* myEstim = [[], [], []]; the file is opened and its first line is read
OpenResults ==
    /\ fpc = "written"
    /\ myEstim' = [e \in EducationGroups |-> <<>>]
    /\ readStr' = ReadLine(resfile, 1)
    /\ betFile' = 2
    /\ fpc' = "reading"
    /\ UNCHANGED <<resfile, opt, runs>>
    /\ UNCHANGED <<uvars, svars, evars, pvars, dvars>>

\* one pass of `while readStr != ''`
ReadBack ==
    /\ fpc = "reading"
    /\ readStr.kind # "empty"
    /\ IF readStr.kind = "dict"
         THEN LET dictload == EvalDict(readStr)
              IN  /\ myEstim' =
                        [myEstim EXCEPT ![dictload.EducationGroup] =
                            <<dictload.beta, dictload.nabla, dictload.GICx,
                              GICfactor(dictload.GICx)>>]
                  /\ readStr' = ReadLine(resfile, betFile)
                  /\ betFile' = betFile + 1
                  /\ fpc' = "reading"
         ELSE \* eval of a line that is no expression raises SyntaxError
              /\ fpc' = "raised"
              /\ UNCHANGED <<myEstim, readStr, betFile>>
    /\ UNCHANGED <<resfile, opt, runs>>
    /\ UNCHANGED <<uvars, svars, evars, pvars, dvars>>

\* the loop has ended: the file is closed and the results for the whole
\* population are computed from myEstim
WholePopulation ==
    /\ fpc = "reading"
    /\ readStr.kind = "empty"
    /\ betFile' = 0
    /\ fpc' = IF \A e \in EducationGroups : myEstim[e] # <<>>
                THEN "done" ELSE "raised"
    /\ UNCHANGED <<resfile, opt, myEstim, readStr, runs>>
    /\ UNCHANGED <<uvars, svars, evars, pvars, dvars>>

\* the script is run again; the results file is the one the last run left
RunAgain ==
    /\ fpc = "done"
    /\ runs < MaxRuns
    /\ opt' = <<>>
    /\ myEstim' = <<>>
    /\ readStr' = <<>>
    /\ fpc' = "estimating"
    /\ runs' = runs + 1
    /\ UNCHANGED <<resfile, betFile>>
    /\ UNCHANGED <<uvars, svars, evars, pvars, dvars>>

FNext ==
    \/ Estimate
    \/ WriteParameters
    \/ OpenResults
    \/ ReadBack
    \/ WholePopulation
    \/ RunAgain

\* only the estimation script runs
InitEstimation == FInit /\ UIdle /\ SIdle /\ EIdle /\ PIdle /\ DIdle

SpecEstimation == InitEstimation /\ [][FNext]_vars

\* the module's functions are called one at a time, each on its own
PInit ==
    /\ pcall = <<>>
    /\ pret = <<>>
    /\ ppc = "idle"

\* the state after the call c returned out
PReturned(c, out) ==
    /\ pcall' = c
    /\ pret' = out
    /\ ppc' = "returned"
    /\ UNCHANGED <<uvars, svars, evars, dvars, fvars>>

\* shares of splurging households tried (0.3 in the source)
Shares == {Zero, One, splurge, <<1, 2>>}

\* the body of the loop of apply_splurge_behavior for one input, the
\* splurge share a parameter
CallSplurgeJacobian ==
    /\ ppc = "idle"
    /\ \E J \in Profiles, share \in Shares :
          PReturned([fn |-> "splurge_jacobian", J |-> J, share |-> share],
                    splurge_jacobian(J, share))

\* markov_array_ss, ss_dstn, U_ss, N_ss, num_mrkv = calibrate_labor_market()
CallCalibrateLaborMarket ==
    /\ ppc = "idle"
    /\ \E p \in LaborMarkets :
          PReturned([fn |-> "calibrate_labor_market", p |-> p],
                    calibrate_labor_market(p))

\* create_model for each of the six lists of blocks
CallCreateModel ==
    /\ ppc = "idle"
    /\ \E model \in AllModels :
          PReturned([fn |-> "create_model", model |-> model],
                    create_model(model))

\* the residual blocks evaluated at the steady-state dictionary of a
\* calibration
CallResiduals ==
    /\ ppc = "idle"
    /\ \E p \in LaborMarkets : \E ss \in {SteadyStateValues(p)} :
          \E resid \in {Residuals(ss)} :
              PReturned([fn |-> "residuals", p |-> p, ss |-> ss], resid)

\* discount rates passed to NPV
DiscountRates == {None, <<2, 1>>, <<11, 10>>}

\* NPV(irf, length) and NPV(irf, length, discount_rate) of hank_sam.py
CallNPV ==
    /\ ppc = "idle"
    /\ \E irf \in SeriesOver({<<-1, 1>>, Zero, <<1, 2>>}), length \in 0 .. bigT,
          discount_rate \in DiscountRates :
          PReturned([fn |-> "NPV", irf |-> irf, length |-> length,
                     discount_rate |-> discount_rate],
                    NPV_rate(irf, length, discount_rate))

\* NPV(irf, length) of hafiscal.py
CallNPV_hafiscal ==
    /\ ppc = "idle"
    /\ \E irf \in SeriesOver({<<-1, 1>>, Zero, <<1, 2>>}), length \in 0 .. bigT :
          PReturned([fn |-> "hafiscal.NPV", irf |-> irf, length |-> length],
                    hafiscal_NPV(irf, length))

\* NPV of a combination of two series, and of each of them
CallNPVCombination ==
    /\ ppc = "idle"
    /\ \E x \in SeriesOver({<<-1, 1>>, <<2, 1>>}), y \in SeriesOver({Zero, One}),
          a \in {<<-1, 1>>, <<1, 2>>, <<3, 1>>},
          b \in {<<-1, 1>>, <<1, 2>>, <<3, 1>>}, n \in 0 .. bigT :
          PReturned([fn |-> "NPV of a combination", x |-> x, y |-> y,
                     a |-> a, b |-> b, length |-> n],
                    [both |-> NPV_rate(Combine(a, x, b, y), n, None),
                     x |-> NPV_rate(x, n, None),
                     y |-> NPV_rate(y, n, None)])

\* the caller is done with the result
PNextCall ==
    /\ ppc = "returned"
    /\ pcall' = <<>>
    /\ pret' = <<>>
    /\ ppc' = "idle"
    /\ UNCHANGED <<uvars, svars, evars, dvars, fvars>>

PNext ==
    \/ CallSplurgeJacobian
    \/ CallCalibrateLaborMarket
    \/ CallResiduals
    \/ CallCreateModel
    \/ CallNPV
    \/ CallNPV_hafiscal
    \/ CallNPVCombination
    \/ PNextCall

InitFunctions == PInit /\ UIdle /\ SIdle /\ EIdle /\ DIdle /\ FIdle

SpecFunctions == InitFunctions /\ [][PNext]_vars

\* ------------------------------------------------------------------------
\* Properties of the unemployment Jacobian
\* ------------------------------------------------------------------------
\* the entry (i, s) has been written
Filled(c) == upc = "done" \/ c[2] < s \/ (c[2] = s /\ c[1] < i)

\* the distribution n steps into column sh, started from d: the matrix of
\* job_find + dx at step sh only, markov_array_ss at every other step
RECURSIVE Propagate(_, _, _, _)
Propagate(p, d, n, sh) ==
    IF n = 0 THEN d
    ELSE LET before == Propagate(p, d, n - 1, sh)
         IN  IF before = before /\ n - 1 = sh
               THEN Dot(create_matrix_U(p, p.dx), before)
               ELSE Dot(markov_array_ss(p), before)

\* C1: at the start of every shock-time column s (before response time 0)
\* the running distribution is the steady-state distribution ss_dstn.
C1_ResetEachColumn == (upc = "loop" /\ i = 0) => dstn = ss_dstn(par)

\* C2: within each column s the matrix of job_find + dx is applied at the
\* step i = s and at no other step, markov_array_ss at every step i # s, and
\* UJAC[:, i, s] is (distribution after step i - ss_dstn) / dx.
C2_PerturbOnlyAtShockTime ==
    \A c \in Times \X Times :
        Filled(c) =>
            LET d == Propagate(par, colstart[c[2]], c[1] + 1, c[2])
            IN  UJAC[c] = [k \in States |->
                             FDiv(RSub(d[k], ss_dstn(par)[k]), par.dx)]

\* a whole Jacobian has been computed, with a response after the shock
C2_Witness ==
    /\ upc = "done"
    /\ par.dx # Zero
    /\ UJAC[<<bigT - 1, 1>>] # ZeroVec
    /\ UJAC[<<1, 1>>] # UJAC[<<2, 1>>]

\* ------------------------------------------------------------------------
\* Properties of the splurge transform
\* ------------------------------------------------------------------------
\* the discounted present value of column sh of J, the sum over t of
\* J[t, sh] / R^t, carried to the arrival period sh
PVOnArrival(J, sh) ==
    RMul(RSum([t \in Times |-> RDiv(J[t][sh], RPow(R, t))], 0, bigT - 1),
         RPow(R, sh))

\* C3: for each of the six policy inputs the consumption Jacobian after
\* apply_splurge_behavior is splurge * D + (1 - splurge) * J, with D diagonal
\* and D[s, s] the present value of column s of J (sum over t of J[t, s] / R^t)
\* multiplied by R^s.
C3_SplurgeIsPresentValueOnArrival ==
    spc \in {"splurged", "splurged_real", "models"} =>
        \A inp \in PolicyInputs : \A t \in Times : \A sh \in Times :
            Jacobian_Dict.C[inp][t][sh] =
                RAdd(RMul(splurge, IF t = sh
                                     THEN PVOnArrival(HA_fiscal_JAC.C[inp], sh)
                                     ELSE Zero),
                     RMul(RSub(One, splurge), HA_fiscal_JAC.C[inp][t][sh]))

\* ------------------------------------------------------------------------
\* Properties of the experiment functions
\* ------------------------------------------------------------------------
IsMultipliersCall == epc = "returned" /\ call.fn = "compute_fiscal_multipliers"

\* position in solves of the standard-Taylor-rule solve of each experiment
\* a call runs: every run_* function solves the standard rule first, and
\* compute_fiscal_multipliers runs UI extension (4 solves), transfers (4)
\* and the tax cut (3) in this order
StandardSolves == IF call.fn = "compute_fiscal_multipliers" THEN {1, 5, 9} ELSE {1}

FixedRealModels ==
    {"HANK_SAM_fixed_real_rate", "HANK_SAM_fixed_real_rate_UI_extend_real",
     "HANK_SAM_tax_cut_fixed_real_rate"}

\* C4, as claimed: a value passed for deficit_T is the deficit_T entry of
\* every steady-state dictionary handed to the solver, and a value passed
\* for lag is the lag entry handed to the lagged-Taylor-rule solve.
C4_DeficitAndLagAreOverrides ==
    epc = "returned" =>
        \A n \in DOMAIN solves :
            /\ "deficit_T" \in DOMAIN call.ov =>
                  solves[n].ss["deficit_T"] = call.ov["deficit_T"]
            /\ ("lag" \in DOMAIN call.ov
                    /\ solves[n].model = "HANK_SAM_lagged_taylor_rule") =>
                  solves[n].ss["lag"] = call.ov["lag"]

\* C4, amended: whatever is passed for deficit_T or lag, the deficit_T entry
\* of every steady-state dictionary handed to the solver is -1, and the lag
\* entry is 2 in the lagged-Taylor-rule solve and -1 in every other solve.
C4_DeficitAndLagFixed ==
    epc = "returned" =>
        \A n \in DOMAIN solves :
            /\ solves[n].ss["deficit_T"] = -1
            /\ solves[n].ss["lag"] =
                  IF solves[n].model = "HANK_SAM_lagged_taylor_rule" THEN 2 ELSE -1

\* a transfer experiment called with both keys has returned
C4_Witness ==
    /\ epc = "returned"
    /\ call.fn = "run_transfer_experiments"
    /\ {"deficit_T", "lag"} \subseteq DOMAIN call.ov
    /\ \E n \in DOMAIN solves : solves[n].model = "HANK_SAM_lagged_taylor_rule"

OvOr(k, default) == IF k \in DOMAIN call.ov THEN call.ov[k] ELSE default

\* C5: in the standard-Taylor-rule solve of all three experiments run by
\* compute_fiscal_multipliers, phi_pi, phi_y, rho_r and kappa_p are the values
\* passed, phi_w is the real_wage_rigidity passed, phi_b is the phi_b passed
\* (UI extension, transfers) and phi_G is minus it (tax cut); a key that is
\* not passed takes the module-level default.
C5_OverridesReachStandardSolve ==
    IsMultipliersCall =>
        \A n \in StandardSolves :
            LET d == solves[n].ss
            IN  /\ d["phi_pi"] = OvOr("phi_pi", phi_pi)
                /\ d["phi_y"] = OvOr("phi_y", phi_y)
                /\ d["rho_r"] = OvOr("rho_r", rho_r)
                /\ d["kappa_p"] = OvOr("kappa_p", kappa_p_ss)
                /\ d["phi_w"] = OvOr("real_wage_rigidity", real_wage_rigidity)
                /\ IF solves[n].model = "HANK_SAM_tax_rate_shock"
                     THEN d["phi_G"] = RNeg(OvOr("phi_b", phi_b))
                     ELSE d["phi_b"] = OvOr("phi_b", phi_b)

\* compute_fiscal_multipliers has returned from a call that passed phi_b
\* and phi_pi, and the three standard solves saw them
C5_Witness ==
    /\ IsMultipliersCall
    /\ {"phi_b", "phi_pi"} \subseteq DOMAIN call.ov
    /\ solves[9].model = "HANK_SAM_tax_rate_shock"
    /\ solves[9].ss["phi_G"] = <<-1, 10>>
    /\ solves[5].ss["phi_pi"] = call.ov["phi_pi"]

\* what a call computes from the import-time dictionary and its own arguments
FromImport(c) ==
    CASE c.fn = "run_ui_extension_experiments" ->
           run_ui_extension_experiments(SteadyState_Dict_import, solver, c.ov)
      [] c.fn = "run_transfer_experiments" ->
           run_transfer_experiments(SteadyState_Dict_import, solver, c.ov)
      [] c.fn = "run_tax_cut_experiments" ->
           run_tax_cut_experiments(SteadyState_Dict_import, solver, c.ov)
      [] OTHER ->
           compute_fiscal_multipliers(SteadyState_Dict_import, solver, c.H, c.ov)

\* C6: after any sequence of calls the module-level SteadyState_Dict equals
\* its import-time value, and the dictionaries, shocks and results of a call
\* are those its own overrides give on the import-time dictionary.
C6_ModuleDictNeverChanges ==
    /\ SteadyState_Dict = SteadyState_Dict_import
    /\ epc = "returned" =>
          \E out \in {FromImport(call)} :
              /\ solves = out.solves
              /\ ret = out.ret

\* a call without overrides has returned after an earlier call, and its
\* standard solve used the default phi_pi
C6_Witness ==
    /\ epc = "returned"
    /\ ncalls = 2
    /\ call.ov = <<>>
    /\ solves[1].ss["phi_pi"] = phi_pi

\* NPV by Horner's rule: x[0] + (x[1] + (x[2] + ...) / R) / R over n terms
Horner(x, n) ==
    LET tail[k \in 0 .. n] ==
            IF k = n THEN Zero ELSE RAdd(x[k], RDiv(tail[k + 1], R))
    IN  tail[0]

\* the IRF dictionary and cost series a multiplier array is computed from
IrfOf(name) ==
    CASE name = "transfers" -> "transfer"
      [] name = "transfers_fixed_nominal" -> "transfer_fixed_nominal"
      [] name = "transfers_fixed_real" -> "transfer_fixed_real"
      [] name = "tax_cut" -> "tau"
      [] name = "tax_cut_fixed_nominal" -> "tau_fixed_nominal"
      [] name = "tax_cut_fixed_real" -> "tau_fixed_real"
      [] OTHER -> name

CostOf(name) ==
    IF name \in {"transfers", "transfers_fixed_nominal", "transfers_fixed_real"}
      THEN "transfers"
      ELSE IF name \in {"tax_cut", "tax_cut_fixed_nominal", "tax_cut_fixed_real"}
             THEN "tax_cost"
             ELSE "UI_extension_cost"

\* C7: element i of every multiplier array is NPV(consumption IRF, i + 1)
\* divided by NPV(cost series of the same IRF dictionary, full horizon), the
\* tax-cut ratio negated, all discounted at the same rate R.
C7_MultiplierIsNPVRatio ==
    IsMultipliersCall =>
        \A name \in MultiplierNames : \A k \in 0 .. (call.H - 1) :
            LET irf == ret.irfs[IrfOf(name)]
                ratio == RDiv(Horner(irf["C"], k + 1),
                              Horner(irf[CostOf(name)], bigT))
            IN  ret.multipliers[name][k] =
                    IF CostOf(name) = "tax_cost" THEN RNeg(ratio) ELSE ratio

\* multipliers over at least two horizons have been computed, and the
\* cumulative multiplier changed between them
C7_Witness ==
    /\ IsMultipliersCall
    /\ call.H >= 2
    /\ ret.multipliers["UI_extend"][1] # ret.multipliers["UI_extend"][0]
    /\ ret.multipliers["tax_cut"][0][1] > 0

\* C8: compute_fiscal_multipliers(horizon_length = H) returns exactly the
\* keys multipliers and irfs; multipliers holds the nine arrays, each of
\* length exactly H; irfs holds the nine IRF dictionaries of the three
\* policies under the three regimes.
C8_ResultShape ==
    IsMultipliersCall =>
        /\ DOMAIN ret = {"multipliers", "irfs"}
        /\ DOMAIN ret.multipliers = MultiplierNames
        /\ \A name \in MultiplierNames :
              DOMAIN ret.multipliers[name] = 0 .. (call.H - 1)
        /\ DOMAIN ret.irfs = IrfNames
        /\ ret.irfs["UI_extend"] = solves[1].irf
        /\ ret.irfs["UI_extend_fixed_nominal"] = solves[2].irf
        /\ ret.irfs["UI_extend_fixed_real"] = solves[3].irf
        /\ ret.irfs["transfer"] = solves[5].irf
        /\ ret.irfs["transfer_fixed_nominal"] = solves[6].irf
        /\ ret.irfs["transfer_fixed_real"] = solves[7].irf
        /\ ret.irfs["tau"] = solves[9].irf
        /\ ret.irfs["tau_fixed_nominal"] = solves[10].irf
        /\ ret.irfs["tau_fixed_real"] = solves[11].irf
        /\ solves[3].model = "HANK_SAM_fixed_real_rate"
        /\ solves[7].model = "HANK_SAM_fixed_real_rate"
        /\ solves[11].model = "HANK_SAM_tax_cut_fixed_real_rate"

\* a result for the full horizon has been returned
C8_Witness ==
    /\ IsMultipliersCall
    /\ call.H = bigT
    /\ Cardinality(DOMAIN ret.multipliers["tax_cut_fixed_real"]) = bigT

\* C9: every solve passes as many targets as unknowns: theta and r_ante
\* with asset_mkt and fisher_resid for the standard, fixed-nominal-rate and
\* lagged-Taylor solves, theta alone with asset_mkt for every fixed-real-rate
\* solve.
C9_UnknownsMatchTargets ==
    epc = "returned" =>
        \A n \in DOMAIN solves :
            /\ Len(solves[n].unknowns) = Len(solves[n].targets)
            /\ IF solves[n].model \in FixedRealModels
                 THEN /\ solves[n].unknowns = <<"theta">>
                      /\ solves[n].targets = <<"asset_mkt">>
                 ELSE /\ solves[n].unknowns = <<"theta", "r_ante">>
                      /\ solves[n].targets = <<"asset_mkt", "fisher_resid">>

\* all eleven solves of the three experiments have been made, among them
\* the fixed-real-rate ones and the lagged one
C9_Witness ==
    /\ IsMultipliersCall
    /\ Len(solves) = 11
    /\ {solves[n].model : n \in DOMAIN solves} =
          FixedRealModels \cup {"HANK_SAM", "HANK_SAM_tax_rate_shock",
                                "HANK_SAM_lagged_taylor_rule"}

\* C10: in each experiment the dictionary of the fixed-nominal-rate solve
\* (the one right after the standard solve) equals the dictionary of the
\* standard solve except for phi_pi, which is 0 whatever was passed; the
\* later fixed-real-rate solves get the dictionary of the standard solve,
\* and so does the caller of a run_* function.
C10_FixedNominalZeroesPhiPiOnly ==
    epc = "returned" =>
        /\ \A n \in StandardSolves :
              /\ solves[n + 1].ss = [solves[n].ss EXCEPT !["phi_pi"] = Zero]
              /\ solves[n + 1].model = solves[n].model
              /\ solves[n + 2].model \in FixedRealModels
              /\ solves[n + 2].ss = solves[n].ss
        /\ \A n \in DOMAIN solves :
              solves[n].model = "HANK_SAM_fixed_real_rate_UI_extend_real" =>
                  solves[n].ss = solves[n - 3].ss
        /\ call.fn = "run_tax_cut_experiments" => ret[4] = solves[1].ss
        /\ call.fn \in {"run_ui_extension_experiments",
                         "run_transfer_experiments"} => ret[5] = solves[1].ss

\* an experiment called with a phi_pi override other than 0 has returned
C10_Witness ==
    /\ epc = "returned"
    /\ call.fn = "run_tax_cut_experiments"
    /\ "phi_pi" \in DOMAIN call.ov
    /\ solves[1].ss["phi_pi"] = <<5, 2>>
    /\ solves[2].ss["phi_pi"] = Zero
    /\ solves[3].ss["phi_pi"] = <<5, 2>>

\* the path of v in an impulse response, as a deviation from the steady
\* state: a variable the result has no series for did not move
Path(irf, v) == IF v \in DOMAIN irf THEN irf[v] ELSE [t \in Times |-> Zero]

\* the dictionary with the three Taylor-rule entries at the module defaults
TaylorDefaults(ss) ==
    [ss EXCEPT !["phi_pi"] = phi_pi, !["phi_y"] = phi_y, !["rho_r"] = rho_r]

\* C11: in every solve of a fixed-real-rate model no block produces r_ante
\* or qb, there is no Taylor-rule and no bond-pricing block, r_ante and qb
\* stay at their steady-state values along the whole path, phi_pi, phi_y and
\* rho_r are inputs of no block, and the result is the one the module
\* defaults of phi_pi, phi_y and rho_r give.
C11_FixedRealRateIgnoresTaylorRule ==
    epc = "returned" =>
        \A n \in DOMAIN solves :
            solves[n].model \in FixedRealModels =>
                LET m == solves[n].model
                IN  /\ ModelOutputs(m) \cap {"r_ante", "qb"} = {}
                    /\ ModelBlocks(m) \cap
                          {"taylor", "taylor_lagged", "longbonds_price"} = {}
                    /\ ModelInputs(m) \cap {"phi_pi", "phi_y", "rho_r"} = {}
                    /\ Path(solves[n].irf, "r_ante") = [t \in Times |-> Zero]
                    /\ Path(solves[n].irf, "qb") = [t \in Times |-> Zero]
                    /\ solves[n].irf =
                          solve_impulse_linear(solver, m,
                              TaylorDefaults(solves[n].ss), solves[n].unknowns,
                              solves[n].targets, solves[n].shocks)

\* a call that passed phi_pi and rho_r has returned: its fixed-real-rate
\* solve was handed both, its standard solve moved r_ante and gave another
\* consumption path than the defaults give
C11_Witness ==
    /\ epc = "returned"
    /\ call.fn = "run_ui_extension_experiments"
    /\ {"phi_pi", "rho_r"} \subseteq DOMAIN call.ov
    /\ solves[3].model = "HANK_SAM_fixed_real_rate"
    /\ solves[3].ss["phi_pi"] = <<5, 2>>
    /\ solves[3].ss["rho_r"] = <<4, 5>>
    /\ Path(solves[1].irf, "r_ante") # [t \in Times |-> Zero]
    /\ solves[1].irf["C"] #
          solve_impulse_linear(solver, "HANK_SAM", TaylorDefaults(solves[1].ss),
              solves[1].unknowns, solves[1].targets, solves[1].shocks)["C"]

\* ------------------------------------------------------------------------
\* Further properties of the splurge transform
\* ------------------------------------------------------------------------
\* what apply_splurge_behavior is claimed to have made of the dictionary
\* before: asset Jacobians of the six inputs scaled by 1 - splurge, their
\* consumption Jacobians scaled by 1 - splurge off the diagonal, every other
\* entry as it was
SplurgedOnce(after, before) ==
    /\ DOMAIN after = {"C", "A"}
    /\ DOMAIN after.C = DOMAIN before.C
    /\ DOMAIN after.A = DOMAIN before.A
    /\ \A inp \in DOMAIN before.A :
          after.A[inp] =
              IF inp \in PolicyInputs
                THEN [t \in Times |-> [sh \in Times |->
                        RMul(RSub(One, splurge), before.A[inp][t][sh])]]
                ELSE before.A[inp]
    /\ \A inp \in DOMAIN before.C :
          IF inp \in PolicyInputs
            THEN \A t \in Times : \A sh \in Times :
                    t # sh => after.C[inp][t][sh] =
                                 RMul(RSub(One, splurge), before.C[inp][t][sh])
            ELSE after.C[inp] = before.C[inp]

C13_SplurgeShareLimits ==
    (ppc = "returned" /\ pcall.fn = "splurge_jacobian") =>
        /\ pcall.share = Zero => pret = pcall.J
        /\ pcall.share = One =>
              \A t \in Times : \A sh \in Times :
                  pret[t][sh] = IF t = sh THEN PVOnArrival(pcall.J, sh) ELSE Zero

\* ------------------------------------------------------------------------
\* Properties of the labor market calibration
\* ------------------------------------------------------------------------
\* C14: the ss_dstn calibrate_labor_market returns is entrywise
\* non-negative, sums to 1 and is a fixed point of markov_array_ss; N_ss plus
\* the five unemployed states is 1, and the steady-state entry U = 1 - N_ss
\* is the U1 + U2 + U3 + U4 + U5 of the block unemployment1.
C14_StationaryDistribution ==
    (ppc = "returned" /\ pcall.fn = "calibrate_labor_market") =>
        LET d == pret.ss_dstn
            U == unemployment1(d[1], d[2], d[3], d[4], d[5])
        IN  /\ \A k \in States : d[k][1] >= 0 /\ d[k][2] > 0
            /\ RSum(d, 0, num_mrkv - 1) = One
            /\ Dot(pret.markov_array_ss, d) = d
            /\ pret.N_ss = d[0]
            /\ RAdd(pret.N_ss, U) = One
            /\ pret.U_ss = U

\* the calibration has been run on the job finding rate of the source, and
\* every state has mass, the last two states not the same
C14_Witness ==
    /\ ppc = "returned"
    /\ pcall.fn = "calibrate_labor_market"
    /\ pcall.p.job_find = <<2, 3>>
    /\ \A k \in States : pret.ss_dstn[k][1] > 0
    /\ pret.ss_dstn[4] # pret.ss_dstn[5]
    /\ pret.U_ss # Zero

\* ------------------------------------------------------------------------
\* Further properties of the unemployment Jacobian
\* ------------------------------------------------------------------------
\* C15: UJAC has one entry per state, response time and shock time; with
\* dx = 0 the matrix create_matrix_U(0) is markov_array_ss and the propagated
\* distribution is ss_dstn after every step of every column, so that its
\* difference from the baseline is zero for all states and times.
C15_ZeroPerturbation ==
    upc \in {"loop", "done"} =>
        /\ DOMAIN UJAC = Times \X Times
        /\ \A c \in Times \X Times : DOMAIN UJAC[c] = States
        /\ par.dx = Zero =>
              /\ create_matrix_U(par, par.dx) = markov_array_ss(par)
              /\ dstn = ss_dstn(par)
              /\ \A k \in States : RSub(dstn[k], ss_dstn(par)[k]) = Zero

\* the whole loop has run with dx = 0 on a distribution with mass in every
\* state
C15_Witness ==
    /\ upc = "done"
    /\ par.dx = Zero
    /\ \A k \in States : dstn[k][1] > 0
    /\ colstart[bigT - 1] = dstn

\* ------------------------------------------------------------------------
\* Properties of NPV
\* ------------------------------------------------------------------------
\* x[0] + x[1] / d + ... + x[n - 1] / d^(n - 1), summed from the last term
DiscountedSum(x, n, d) ==
    LET tail[k \in 0 .. n] ==
            IF k = n THEN Zero ELSE RAdd(RDiv(x[k], RPow(d, k)), tail[k + 1])
    IN  tail[0]

\* C16: NPV(irf, length) is the sum over i < length of irf[i] / d^i, d the
\* module's R when no discount_rate is passed, 0 when length = 0; only the
\* first length entries of irf are read; with the default rate hank_sam.NPV
\* and hafiscal.NPV return the same value.
C16_NPVIsDiscountedSum ==
    /\ (ppc = "returned" /\ pcall.fn = "NPV") =>
          LET n == pcall.length
              head == [k \in 0 .. (n - 1) |-> pcall.irf[k]]
              d == IF pcall.discount_rate = None THEN R ELSE pcall.discount_rate
          IN  /\ pret = DiscountedSum(head, n, d)
              /\ n = 0 => pret = Zero
              /\ pcall.discount_rate = None =>
                    pret = hafiscal_NPV(pcall.irf, n)
    /\ (ppc = "returned" /\ pcall.fn = "hafiscal.NPV") =>
          pret = NPV_rate(pcall.irf, pcall.length, None)

\* NPV over a window shorter than the series, at a rate other than R, has
\* returned a value the default rate does not give, the entries beyond the
\* window not zero
C16_Witness ==
    /\ ppc = "returned"
    /\ pcall.fn = "NPV"
    /\ pcall.length = 2
    /\ pcall.discount_rate = <<2, 1>>
    /\ pcall.irf[bigT - 1] # Zero
    /\ pret # Zero
    /\ pret # hafiscal_NPV(pcall.irf, pcall.length)

\* C17: NPV is linear in the series: NPV(a*x + b*y, n) is
\* a * NPV(x, n) + b * NPV(y, n) for all scalars a, b, equal-length series
\* x, y and lengths n up to their length.
C17_NPVLinear ==
    (ppc = "returned" /\ pcall.fn = "NPV of a combination") =>
        pret.both = RAdd(RMul(pcall.a, pret.x), RMul(pcall.b, pret.y))

\* a combination with both series and both scalars to the point: full
\* length, neither value zero, the weights not summing to 1
C17_Witness ==
    /\ ppc = "returned"
    /\ pcall.fn = "NPV of a combination"
    /\ pcall.length = bigT
    /\ pcall.a = <<3, 1>> /\ pcall.b = <<-1, 1>>
    /\ pret.x # Zero /\ pret.y # Zero
    /\ pret.both # pret.x /\ pret.both # Zero

\* ------------------------------------------------------------------------
\* hank_sam.py against hafiscal.py
\* ------------------------------------------------------------------------
\* the solve of the script that corresponds to solve n of
\* compute_fiscal_multipliers
ScriptSolve(n) ==
    CASE n = 1 -> 1 [] n = 2 -> 2 [] n = 3 -> 4 [] n = 4 -> 5
      [] n = 5 -> 6 [] n = 6 -> 7 [] n = 7 -> 9 [] n = 8 -> 8
      [] n = 9 -> 10 [] n = 10 -> 11 [] OTHER -> 12

\* C18: without overrides hank_sam does what hafiscal does: every model is
\* made of the same blocks, the Jacobian dictionaries among them with the
\* same content (the same splurge transform applied), every experiment solve
\* passes the same steady-state dictionary, unknowns, targets and shock
\* path, and the multiplier loop gives the same arrays.
C18_ReproducesHafiscal ==
    spc = "models" =>
        LET script == hafiscal_Jacobians(HA_fiscal_JAC, UI_extend_realized_Jacs)
        IN  /\ \A m \in AllModels : ModelBlocks(m) = hafiscal_ModelBlocks(m)
            /\ Jacobian_Dict = script.Jacobian_Dict
            /\ Jacobian_Dict_UI_extend_real = script.Jacobian_Dict_UI_extend_real
            /\ \A sj \in SolverGains :
                  LET hs == compute_fiscal_multipliers(
                                SteadyState_Dict_import, sj, bigT, <<>>)
                      sv == hafiscal_solves(sj)
                  IN  /\ \A n \in DOMAIN hs.solves :
                            hs.solves[n] = sv[ScriptSolve(n)]
                      /\ hs.ret.multipliers = hafiscal_multipliers(sv, bigT)

\* ------------------------------------------------------------------------
\* Further properties of the experiment functions
\* ------------------------------------------------------------------------
\* the constant and the window length of the shock to input inp in the
\* call that returned
ShockValue(inp) ==
    CASE inp = "UI_extend" -> <<1, 5>>
      [] inp = "transfers" -> RMul(C_ss, <<1, 20>>)
      [] OTHER -> <<-1, 50>>

ShockLength(inp) ==
    CASE inp = "UI_extend" -> OvOr("UI_extension_length", 4)
      [] inp = "transfers" -> 1
      [] OTHER -> OvOr("tax_cut_length", 8)

\* C19: the shock of every solve names exactly one input and is a series of
\* length bigT, constant on positions 0 .. L - 1 and 0 after them: 0.2 for
\* UI_extend with L the UI_extension_length passed (default 4), C_ss * 0.05
\* for transfers with L = 1, -0.02 for tau with L the tax_cut_length passed
\* (default 8).
C19_ShockShape ==
    epc = "returned" =>
        \A n \in DOMAIN solves :
            LET sh == solves[n].shocks
                experiment ==
                    CASE call.fn = "run_ui_extension_experiments" -> "UI_extend"
                      [] call.fn = "run_transfer_experiments" -> "transfers"
                      [] call.fn = "run_tax_cut_experiments" -> "tau"
                      [] OTHER -> IF n <= 4 THEN "UI_extend"
                                  ELSE IF n <= 8 THEN "transfers" ELSE "tau"
            IN  /\ DOMAIN sh = {experiment}
                /\ DOMAIN sh[experiment] = Times
                /\ \A t \in Times :
                      sh[experiment][t] =
                          IF t < ShockLength(experiment)
                            THEN ShockValue(experiment) ELSE Zero

\* all three experiments have run with both lengths passed: the UI shock
\* ends before the tax shock does, and both end before the horizon
C19_Witness ==
    /\ IsMultipliersCall
    /\ "UI_extension_length" \in DOMAIN call.ov
    /\ call.ov["UI_extension_length"] = 1
    /\ "tax_cut_length" \in DOMAIN call.ov
    /\ solves[1].shocks["UI_extend"][0] = <<1, 5>>
    /\ solves[1].shocks["UI_extend"][1] = Zero
    /\ solves[9].shocks["tau"][1] = <<-1, 50>>
    /\ solves[9].shocks["tau"][bigT - 1] = Zero
    /\ solves[5].shocks["transfers"][0] = <<691, 20000>>

\* the model and the shocked input of each solve a function makes, in the
\* order of its statements
SolveSequence(fn) ==
    LET ui == <<<<"HANK_SAM", "UI_extend">>, <<"HANK_SAM", "UI_extend">>,
                <<"HANK_SAM_fixed_real_rate", "UI_extend">>,
                <<"HANK_SAM_fixed_real_rate_UI_extend_real", "UI_extend">>>>
        tr == <<<<"HANK_SAM", "transfers">>, <<"HANK_SAM", "transfers">>,
                <<"HANK_SAM_fixed_real_rate", "transfers">>,
                <<"HANK_SAM_lagged_taylor_rule", "transfers">>>>
        tx == <<<<"HANK_SAM_tax_rate_shock", "tau">>,
                <<"HANK_SAM_tax_rate_shock", "tau">>,
                <<"HANK_SAM_tax_cut_fixed_real_rate", "tau">>>>
    IN  CASE fn = "run_ui_extension_experiments" -> ui
          [] fn = "run_transfer_experiments" -> tr
          [] fn = "run_tax_cut_experiments" -> tx
          [] OTHER -> ui \o tr \o tx

\* C20: when a solve or an NPV computation raises inside
\* compute_fiscal_multipliers or a run_*_experiments function, the caller
\* sees that exception and no result; the solves made are exactly those
\* before the failing statement, each once and in order, and none after it.
C20_ExceptionPropagates ==
    exc.thrown # NoError =>
        /\ epc = "raised"
        /\ exc.seen = exc.thrown
        /\ ret = <<>>
        /\ Len(solves) = exc.at - 1
        /\ [n \in DOMAIN solves |->
               <<solves[n].model, ShockInput(solves[n].shocks)>>]
             = SubSeq(SolveSequence(call.fn), 1, exc.at - 1)

\* the second transfer solve of compute_fiscal_multipliers raised: the four
\* UI solves and one transfer solve were made, and no tax-cut solve
C20_Witness ==
    /\ epc = "raised"
    /\ call.fn = "compute_fiscal_multipliers"
    /\ exc.thrown = "LinAlgError"
    /\ exc.at = 6
    /\ Len(solves) = 5
    /\ solves[5].shocks = [k \in {"transfers"} |-> ShockPath(1, <<691, 20000>>)]
    /\ \A n \in DOMAIN solves : "tau" \notin DOMAIN solves[n].shocks

\* ------------------------------------------------------------------------
\* The steady state as the base point of the linearization
\* ------------------------------------------------------------------------
\* C22: on constant paths at the values of SteadyState_Dict, taylor_resid,
\* lbp_resid, fiscal_resid and nkpc_resid, which the dictionary declares
\* as 0.0, and the targets asset_mkt and fisher_resid all evaluate to 0.
C22_ResidualsVanish ==
    (ppc = "returned" /\ pcall.fn = "residuals") =>
        \A k \in DOMAIN pret : pret[k] = Zero

\* all of them but the Taylor rule's vanish
ResidualsButTaylorVanish ==
    (ppc = "returned" /\ pcall.fn = "residuals") =>
        /\ \A k \in DOMAIN pret \ {"taylor_resid"} : pret[k] = Zero
        /\ pret.taylor_resid = r_ss

\* ------------------------------------------------------------------------
\* Conservation of mass in the unemployment Jacobian
\* ------------------------------------------------------------------------
\* sum of column c of the matrix M
ColumnSum(M, c) == RSum([r \in States |-> M[r][c]], 0, num_mrkv - 1)

\* sum of the entries of a vector over the states
Total(v) == RSum(v, 0, num_mrkv - 1)

\* C23: every column of markov_array_ss and of create_matrix_U(dx) sums to
\* 1, so the running distribution sums to 1 after every step, and for every
\* response time i and shock time s the six entries UJAC[0..5, i, s] sum to
\* 0 (dx is the nonzero constant of the source).
C23_MassConserved ==
    upc \in {"loop", "done"} =>
        /\ \A c \in States :
              /\ ColumnSum(markov_array_ss(par), c) = One
              /\ ColumnSum(create_matrix_U(par, par.dx), c) = One
        /\ Total(dstn) = One
        /\ par.dx # Zero =>
              \A c \in Times \X Times : Filled(c) => Total(UJAC[c]) = Zero

\* a whole Jacobian has been computed in which employment and short-term
\* unemployment respond in opposite directions
C23_Witness ==
    /\ upc = "done"
    /\ par.dx # Zero
    /\ UJAC[<<1, 1>>][0] # Zero
    /\ UJAC[<<1, 1>>][0] = RNeg(Total([k \in States |->
                                 IF k = 0 THEN Zero ELSE UJAC[<<1, 1>>][k]]))

\* C24: the unemployment Jacobian shows no response before the shock: for
\* every shock time s and every response time i < s, UJAC[:, i, s] = 0 for
\* all six states (dx is the nonzero constant of the source).
C24_NoResponseBeforeShock ==
    par.dx # Zero =>
        \A c \in Times \X Times :
            (Filled(c) /\ c[1] < c[2]) => UJAC[c] = ZeroVec

\* ------------------------------------------------------------------------
\* Column totals under the splurge transform
\* ------------------------------------------------------------------------
\* the undiscounted total of column sh of J over the response times
ColumnTotal(J, sh) == RSum([t \in Times |-> J[t][sh]], 0, bigT - 1)

SameColumnTotals(after, before) ==
    \A inp \in PolicyInputs : \A sh \in Times :
        ColumnTotal(after.C[inp], sh) = ColumnTotal(before.C[inp], sh)

C26_ModelsWellFormed ==
    (ppc = "returned" /\ pcall.fn = "create_model") =>
        /\ \A v \in DOMAIN pret.producers :
              Cardinality(pret.producers[v]) = 1
        /\ ModelUnknowns(pcall.model) \cap DOMAIN pret.producers = {}
        /\ ModelTargets(pcall.model) \subseteq DOMAIN pret.producers
        /\ pret.unordered = {}

\* a fixed-real-rate model has been built: the nominal rate comes from the
\* Fisher block alone and the real rate from no block
C26_Witness ==
    /\ ppc = "returned"
    /\ pcall.fn = "create_model"
    /\ pcall.model = "HANK_SAM_fixed_real_rate"
    /\ pret.producers["i"] = {"fisher_clearing_fixed_real_rate"}
    /\ "r_ante" \notin DOMAIN pret.producers
    /\ "hiring_cost" \in pret.blocks

\* ------------------------------------------------------------------------
\* The dashboard's click handler
\* ------------------------------------------------------------------------
\* the handler has ended and the status, the button and the error shown are
\* as they should be
HandlerEndsWell ==
    /\ dpc = "computing" => run_button.disabled
    /\ dpc = "done" =>
          /\ ~run_button.disabled
          /\ progress_label.msg # "Solving..."
          /\ ~outcome.raised => progress_label.msg = "Complete"
          /\ outcome.raised => progress_label.msg = "Error: " \o outcome.e

\* C27: every invocation of update_plots, whether the computation succeeds
\* or raises, disables run_button before the computation starts and ends
\* with run_button enabled; the status ends at Complete on success or at the
\* error message on failure, never at Solving..., and on failure both
\* figure outputs are cleared.
C27_HandlerAlwaysRestores ==
    /\ dpc = "computing" => run_button.disabled
    /\ dpc = "done" =>
          /\ ~run_button.disabled
          /\ IF outcome.raised
               THEN /\ progress_label.msg = "Error: " \o outcome.e
                    /\ fig1_output.outputs = <<>>
                    /\ fig2_output.outputs = <<>>
               ELSE progress_label.msg = "Complete"

\* ------------------------------------------------------------------------
\* Keywords compute_fiscal_multipliers does not recognize
\* ------------------------------------------------------------------------
\* the keyword arguments without the key k
Without(ov, k) == [j \in DOMAIN ov \ {k} |-> ov[j]]

\* a call of compute_fiscal_multipliers that was passed status_callback
PassedCallback ==
    /\ epc # "idle"
    /\ call.fn = "compute_fiscal_multipliers"
    /\ "status_callback" \in DOMAIN call.ov

\* C28: a keyword compute_fiscal_multipliers does not recognize, such as
\* status_callback, changes no steady-state entry and no shock and raises no
\* error, and a callable passed this way is never called: the call returns,
\* and everything it hands to the solver, everything it returns and the
\* module-level dictionary it leaves are those of the same call without the
\* keyword, so the callable has had no part in the computation.
C28_UnknownKeyIgnored ==
    PassedCallback =>
        /\ epc = "returned"
        /\ \E out \in {compute_fiscal_multipliers(
                           SteadyState_Dict_import, solver, call.H,
                           Without(call.ov, "status_callback"))} :
              /\ solves = out.solves
              /\ ret = out.ret
              /\ SteadyState_Dict = out.glob

C28_Witness ==
    /\ PassedCallback
    /\ epc = "returned"
    /\ call.ov["status_callback"] = "callable"
    /\ "phi_pi" \in DOMAIN call.ov
    /\ call.H = bigT


\* ------------------------------------------------------------------------
\* The results file of the estimation
\* ------------------------------------------------------------------------
\* the lines of estimates a file holds, in order
RECURSIVE DictLines(_)
DictLines(file) ==
    IF file = <<>> THEN <<>>
    ELSE IF Head(file).kind = "dict" THEN <<Head(file)>> \o DictLines(Tail(file))
    ELSE DictLines(Tail(file))

\* C29: writing the result for education group 0 overwrites the old results
\* file and the results for groups 1 and 2 are appended to it, so after a
\* run the file holds only the three estimates of that run.
C29_FileHoldsThisRunOnly ==
    fpc \in {"estimated", "written", "reading", "done"} =>
        DictLines(resfile) = [e \in 1 .. 3 |-> DictLine(e - 1, opt[e])]

\* C30: the read-back loop sets myEstim[e], for each education group e, to
\* the parameters the estimation loop of the same run wrote for e, also
\* when the results file had content before the run started.
C30_ReadBackIsThisRun ==
    fpc \in {"done", "raised"} =>
        \A e \in EducationGroups :
            myEstim[e] = <<opt[e + 1][1], opt[e + 1][2], opt[e + 1][3],
                           GICfactor(opt[e + 1][3])>>

\* what does hold: the read-back loop stops at the first blank line, so it
\* reads the estimates of the first run that wrote to the file
ReadBackIsFirstRun ==
    fpc = "done" =>
        \A e \in EducationGroups :
            myEstim[e] = <<resfile[e + 1].text[4], resfile[e + 1].text[6],
                           resfile[e + 1].text[8],
                           GICfactor(resfile[e + 1].text[8])>>
====
